---- MODULE Spec2Model ----
(***************************************************************************)
(* A state-machine model of efm-langserver's orchestration core: the       *)
(* document store, the lint debounce timer, the linter loop with its       *)
(* cancellable lint jobs, and the format debounce gate.                    *)
(***************************************************************************)
EXTENDS Integers, Sequences, FiniteSets, Bags, TLC

(***************************************************************************)
(* Bounds of the model.                                                    *)
(***************************************************************************)
\* highest document version the editor sends
MaxVersion == 2
\* lint jobs the linter loop spawns in one run
MaxJobs == 2
\* timer callbacks and orphaned timers that may be pending at once
MaxPending == 1
\* longest text a formatter reads or leaves behind
MaxLen == 2
\* formatter recipes of one pipeline run
MaxFormatters == 2
\* longest command template, in pieces (a placeholder or a run of text)
MaxTokens == 2
\* highest line and column number an error-format entry carries
MaxLnum == 2
MaxCol == 2

(***************************************************************************)
(* Inputs: documents, language ids, buffer texts.                          *)
(***************************************************************************)
URIs == {"a", "b"}
Langs == {"md"}
Versions == 1..MaxVersion
\* the buffer text of version v is the one-character string << v >>
TextAt(v) == << v >>

\* eventType, src/langserver/handler.go:28-32
eventTypeChange == "change"
eventTypeSave == "save"
eventTypeOpen == "open"

EventTypes == {eventTypeChange, eventTypeSave, eventTypeOpen}

\* the language id of the recipes that apply to every document
wildcard == "="

\* the value of h.files at a uri it has no entry for, the nil *time.Timer,
\* and nil in general
NoFile == [LanguageID |-> "", Text |-> << >>, Version |-> -1]
NoTimer == [URI |-> "", EventType |-> "", armed |-> FALSE]
Nil == "nil"

(***************************************************************************)
(* Configuration.  A recipe (type Language) keeps the fields the lint      *)
(* engine and the router read.                                             *)
(***************************************************************************)
Recipe ==
    [LintCommand |-> "lint", LintStdin |-> TRUE, LintWorkspace |-> FALSE,
     LintJQ |-> FALSE,
     LintOnSave |-> FALSE, LintAfterOpen |-> TRUE, LintIgnoreExitCode |-> TRUE,
     RequireMarker |-> FALSE, RootMarkers |-> {}, CheckInstall |-> FALSE,
     DoInstall |-> FALSE,
     \* Passthrough is a pointer: << >> for nil, << c >> for a passthrough
     \* spec whose Command is c
     FormatCommand |-> "", Passthrough |-> << >>,
     \* LintFormats holds a pattern NewErrorformat rejects; LintJQ is a
     \* filter gojq.Parse rejects
     BadFormats |-> FALSE, BadJq |-> FALSE]

\* one workspace recipe decoded by the error-format parser (Scenario E)
CfgWorkspace == [md |-> << [Recipe EXCEPT !.LintWorkspace = TRUE] >>]
\* a per-file linter and formatter, then a workspace recipe with an
\* install probe and an install command
CfgTwo == [md |-> << [Recipe EXCEPT !.FormatCommand = "fmt"],
                     [Recipe EXCEPT !.LintWorkspace = TRUE, !.CheckInstall = TRUE,
                                    !.DoInstall = TRUE] >>]
\* one workspace recipe decoded by lint-jq
CfgJq == [md |-> << [Recipe EXCEPT !.LintWorkspace = TRUE, !.LintJQ = TRUE] >>]
\* the commands of the passthrough specs
Commands == {"pls", "alt"}
\* a recipe carrying a passthrough spec, and the same recipe after its
\* command has been changed
CfgPass == [md |-> << [Recipe EXCEPT !.Passthrough = << "pls" >>] >>]
CfgPassAlt == [md |-> << [Recipe EXCEPT !.Passthrough = << "alt" >>] >>]

\* a recipe for tools that exit with zero only when they found nothing,
\* then one that reads the output whatever the exit code
CfgExit == [md |-> << [Recipe EXCEPT !.LintIgnoreExitCode = FALSE], Recipe >>]
\* a recipe that does not lint on open, for a tool that reads the file
\* named on its command line
CfgNoOpen == [md |-> << [Recipe EXCEPT !.LintAfterOpen = FALSE, !.LintStdin = FALSE] >>]
\* a recipe with an invalid error-format, then a sound one
CfgBad == [md |-> << [Recipe EXCEPT !.BadFormats = TRUE], Recipe >>]
\* a recipe with an invalid jq filter, then a per-file recipe decoded by lint-jq
CfgJqFile == [md |-> << [Recipe EXCEPT !.LintJQ = TRUE, !.BadJq = TRUE],
                        [Recipe EXCEPT !.LintJQ = TRUE] >>]

\* root markers are strings, here sequences of characters: a glob pattern,
\* with a trailing "/" for a directory marker
GitDir == << ".", "g", "i", "t", "/" >>
AnyGitDir == << "*", "g", "i", "t", "/" >>

\* recipes that lint on some event kinds only, under the language and under
\* the wildcard
CfgWild ==
    [l \in {"md", wildcard} |->
        IF l = "md"
        THEN << [Recipe EXCEPT !.LintOnSave = TRUE],
                [Recipe EXCEPT !.LintAfterOpen = FALSE] >>
        ELSE << [Recipe EXCEPT !.LintOnSave = TRUE, !.LintAfterOpen = FALSE] >>]
\* a linter and formatter that requires its marker, under the language and
\* under the wildcard
CfgMarker ==
    [l \in {"md", wildcard} |->
        IF l = "md"
        THEN << [Recipe EXCEPT !.RequireMarker = TRUE, !.FormatCommand = "fmt",
                               !.RootMarkers = {AnyGitDir}] >>
        ELSE << [Recipe EXCEPT !.RequireMarker = TRUE, !.FormatCommand = "wfmt",
                               !.LintCommand = "wlint",
                               !.RootMarkers = {GitDir}] >>]

Configs == {CfgWorkspace, CfgTwo, CfgJq, CfgPass, CfgPassAlt, CfgExit, CfgNoOpen, CfgBad,
            CfgJqFile, CfgWild, CfgMarker}

\* the logger: publish-logs-to-method ("": unset, or one of the window
\* methods) and the log level
Loggers ==
    [method : {"", "textDocument/publishDiagnostics"}, loglevel : {0, 1, 3}]
\* a logger that sends no diagnostics, at the default log level
Quiet == [method |-> "", loglevel |-> 1]

VARIABLES
    configs,            \* h.configs: language id -> recipes
    logger,             \* h.logger with h.loglevel: [method, loglevel]
    files,              \* h.files: uri -> File (NoFile when absent)
    lintTimer,          \* h.lintTimer: the timer object the field points to
    orphans,            \* armed timers h.lintTimer no longer points to, by deadline
    callbacks,          \* timer callbacks in flight: [URI, EventType, pc]
    running,            \* linter's running map: uri -> job whose cancel it holds
    jobs,               \* lint job goroutines, in spawn order
    lastPublishedURIs,  \* h.lastPublishedURIs: language id -> set of uris
    passthroughServers, \* h.passthroughServers: "languageID:command" -> the cached child
    formatTimer,        \* h.formatTimer: Nil, "armed" or "fired"
    formatReply,        \* the reply of the last format request
    editorOpen,         \* history: uris the editor opened and has not closed
    burstFires,         \* history: timer expiries since the current burst began
    triggered,          \* history: uris with a lint trigger no job has served yet
    lastWsEmitted,      \* history: language id -> uris the last workspace lint emitted for
    request,            \* h.request, the channel to the linter loop: "open" or "closed"
    panicked,           \* a goroutine of the server panicked: the process is gone
    updateErr,          \* the error the last document notification returned ("" for nil)
    forwarded,          \* the last call forwarded to a passthrough child
    dispatcher,         \* where the goroutine that runs handle is
    pipeline,           \* one run of the formatter pipeline of rangeFormatting
    conv,               \* one error-format entry on its way to a diagnostic
    routed,             \* where handle sent the last call of a method without a handler here
    jqrun,              \* one object of a lint-jq filter on its way to a diagnostic
    probe,              \* one run of an install probe
    subst,              \* one command template being substituted
    located             \* one error-format entry on its way to a diagnostic's range

vars == << configs, logger, files, lintTimer, orphans, callbacks, running, jobs,
           lastPublishedURIs, passthroughServers, formatTimer, formatReply,
           editorOpen, burstFires, triggered, lastWsEmitted, request, panicked,
           updateErr, forwarded, dispatcher, pipeline, conv, routed, jqrun, probe,
           subst, located >>

storeVars == << files, editorOpen >>
timerVars == << lintTimer, orphans, callbacks, burstFires, triggered >>
jobVars == << running, jobs, lastPublishedURIs, lastWsEmitted >>
formatVars == << formatTimer, formatReply >>
passVars == << passthroughServers, forwarded >>
lifeVars == << request, panicked >>
calcVars == << routed, jqrun, probe, subst, located >>
pureVars == << pipeline, conv, calcVars >>
\* what only the goroutine of handle and the pure runs touch
quietVars == << lifeVars, pureVars, updateErr, dispatcher >>

(***************************************************************************)
(* Debouncer: lintRequest and the timer it arms.                           *)
(***************************************************************************)
\* some lint timer is armed: the debounce window of the last trigger is open
WindowOpen == lintTimer.armed \/ orphans # << >>

\* h.lintTimer = time.AfterFunc(...): the timer runs before the field is
\* stored, and its callback writes the field without the mutex.  early: the
\* timer has expired and the callback's h.lintTimer = nil has come before
\* the store, so that the field is left pointing to the expired timer and
\* the callback is on its way to its send
armTimer(uri, eventType, early) ==
    /\ early => BagCardinality(callbacks) < MaxPending
    /\ lintTimer' = [URI |-> uri, EventType |-> eventType, armed |-> ~early]
    /\ callbacks' = IF early
                       THEN callbacks (+) SetToBag({[URI |-> uri, EventType |-> eventType,
                                                     pc |-> "send"]})
                       ELSE callbacks
    /\ burstFires' = (IF WindowOpen THEN burstFires ELSE 0) + (IF early THEN 1 ELSE 0)

\* lintRequest: Reset the timer the field points to, or arm a fresh one
lintRequest(uri, eventType) ==
    /\ IF lintTimer # NoTimer
          THEN /\ lintTimer' = [lintTimer EXCEPT !.armed = TRUE]
               /\ burstFires' = IF WindowOpen THEN burstFires ELSE 0
               /\ UNCHANGED callbacks
          ELSE \E early \in BOOLEAN : armTimer(uri, eventType, early)
    /\ triggered' = triggered \cup {uri}
    /\ UNCHANGED orphans

\* the runtime fires the armed timer with the earliest deadline and starts
\* its callback in a goroutine of its own
TimerFire ==
    /\ WindowOpen
    /\ BagCardinality(callbacks) < MaxPending
    /\ LET t == IF orphans # << >> THEN Head(orphans)
                 ELSE [URI |-> lintTimer.URI, EventType |-> lintTimer.EventType]
       IN callbacks' = callbacks (+) SetToBag({[URI |-> t.URI,
                                   EventType |-> t.EventType, pc |-> "clear"]})
    /\ IF orphans # << >>
          THEN orphans' = Tail(orphans) /\ UNCHANGED lintTimer
          ELSE lintTimer' = [lintTimer EXCEPT !.armed = FALSE] /\ UNCHANGED orphans
    /\ burstFires' = burstFires + 1
    /\ UNCHANGED << configs, logger, quietVars, storeVars, jobVars, formatVars, passVars,
                    triggered >>

\* the callback's first statement: h.lintTimer = nil
CallbackClear(cb) ==
    /\ cb.pc = "clear"
    /\ BagIn(cb, callbacks)
    /\ callbacks' = (callbacks (-) SetToBag({cb}))
                        (+) SetToBag({[cb EXCEPT !.pc = "send"]})
    /\ lintTimer' = NoTimer
    /\ orphans' = IF lintTimer.armed
                     THEN Append(orphans, [URI |-> lintTimer.URI,
                                           EventType |-> lintTimer.EventType])
                     ELSE orphans
    /\ UNCHANGED << configs, logger, quietVars, storeVars, jobVars, formatVars, passVars,
                    burstFires, triggered >>

(***************************************************************************)
(* Document store.  A lint job keeps the *File it looked up: while that    *)
(* object is the one h.files holds the job reads it through the map        *)
(* (f.live); once the map drops the object the job keeps its last value.   *)
(***************************************************************************)
\* the job's view of its document before the lookup
LiveF == [live |-> TRUE, file |-> NoFile]

\* the goroutine of the job has not returned
InProgress(job) ==
    job.pc \in {"lint", "recipe", "check", "install", "tool", "finish", "publish", "version"}

\* the jobs that hold the *File of uri see it leave h.files
Detach(js, uri) ==
    [j \in DOMAIN js |->
        IF js[j].uri = uri /\ js[j].f.live
              /\ js[j].pc \in {"recipe", "check", "install", "tool", "finish"}
        THEN [js[j] EXCEPT !.f = [live |-> FALSE, file |-> files[uri]]]
        ELSE js[j]]

\* closeFile: delete(h.files, uri)
closeFile(fs, uri) == [fs EXCEPT ![uri] = NoFile]

\* openFile: a fresh File with empty text
openFile(fs, uri, languageID, version) ==
    [fs EXCEPT ![uri] = [LanguageID |-> languageID, Text |-> << >>, Version |-> version]]

\* updateFile, the store part: text always, version unless the pointer is
\* nil (<< >>; << v >> points to v)
updateFile(fs, uri, text, version) ==
    IF fs[uri] = NoFile THEN fs
    ELSE [fs EXCEPT ![uri] = [@ EXCEPT !.Text = text,
                                  !.Version = IF version # << >> THEN version[1] ELSE @]]

(***************************************************************************)
(* Dispatch router with the passthrough decorator.                         *)
(***************************************************************************)
\* findPassthrough, the flag it returns: the document is in the store and
\* a recipe of its language carries a passthrough spec
findPassthrough(uri) ==
    /\ files[uri] # NoFile
    /\ files[uri].LanguageID \in DOMAIN configs
    /\ \E k \in DOMAIN configs[files[uri].LanguageID] :
          configs[files[uri].LanguageID][k].Passthrough # << >>

\* findPassthrough, the spec it returns: that of the first recipe of the
\* language that carries one; here its Command
PassthroughOf(uri) ==
    LET cfgs == configs[files[uri].LanguageID]
        k == CHOOSE i \in DOMAIN cfgs :
                 /\ cfgs[i].Passthrough # << >>
                 /\ \A h \in 1..(i - 1) : cfgs[h].Passthrough = << >>
    IN cfgs[k].Passthrough[1]

\* the key of the server map: fmt.Sprintf("%s:%s", languageID,
\* passthrough.Command), computed once for every language and command
KeyTable == [languageID \in Langs, command \in Commands |-> languageID \o ":" \o command]
Key(languageID, command) == KeyTable[languageID, command]
Keys == {Key(l, c) : l \in Langs, c \in Commands}
\* the key getPassthroughServer computes for a call about uri
KeyOf(uri) == Key(files[uri].LanguageID, PassthroughOf(uri))

\* a child process: pid numbers the children spawned under the key (0: no
\* entry in the map), alive tells whether the process is running
NoServer == [pid |-> 0, alive |-> FALSE]

\* the last forwarded call: the child it went to, whether that child was
\* running when the call was sent, and the error the call returned ("" for
\* nil, Pending while server.conn.Call has not returned)
Pending == "pending"
NoForward == [n |-> 0, lang |-> "", cmd |-> "", key |-> "", pid |-> 0, alive |-> FALSE, err |-> ""]

\* the goroutine of handle takes one message at a time: it is idle
\* between two messages, or inside a handler that waits: for the answer of
\* a passthrough child (pc "call"), for the formatter commands (pc
\* "format"), for the children it shuts down (pc "shutdown", left: the
\* keys it has not visited)
Idle == [pc |-> "idle", method |-> "", uri |-> "", left |-> {}]
Waiting(pc, method, uri) == [pc |-> pc, method |-> method, uri |-> uri, left |-> {}]

\* cmd.Start: one more child under the key
Spawn(srv) == [pid |-> srv.pid + 1, alive |-> TRUE]

\* the server getPassthroughServer returns: the entry cached under the
\* key of the language and the command when there is one, else a fresh
\* child
ServerFor(uri) ==
    LET srv == passthroughServers[KeyOf(uri)]
    IN IF srv # NoServer THEN srv ELSE Spawn(srv)

\* a router without the passthrough decorator
ForwardedNever(uri, spawnOK) == FALSE

\* the call is forwarded when getPassthroughServer returns a server: the
\* entry is cached or cmd.Start succeeds (spawnOK)
Forwarded(uri, spawnOK) ==
    /\ findPassthrough(uri)
    /\ spawnOK \/ passthroughServers[KeyOf(uri)] # NoServer

\* the server map after getPassthroughServer returned a server: a fresh
\* child is stored under its key, and no entry is ever deleted
getPassthroughServer(uri) ==
    passthroughServers' = [passthroughServers EXCEPT ![KeyOf(uri)] = ServerFor(uri)]

\* handle up to server.conn.Call on the server getPassthroughServer
\* returned: the call is sent and the goroutine waits for its answer
ForwardCall(method, uri) ==
    /\ dispatcher' = Waiting("call", method, uri)
    /\ getPassthroughServer(uri)
    /\ forwarded' = [n |-> 1 - forwarded.n, lang |-> files[uri].LanguageID,
                     cmd |-> PassthroughOf(uri), key |-> KeyOf(uri),
                     pid |-> ServerFor(uri).pid, alive |-> ServerFor(uri).alive,
                     err |-> Pending]

\* the error server.conn.Call returns: nil when the child answered with a
\* result; the error of its response, or of its closed connection when it
\* has exited, otherwise
ForwardErr(answered) ==
    IF answered /\ passthroughServers[forwarded.key].alive THEN "" ELSE "passthrough error"

\* handle, for a forwarded textDocument method: nothing is handled locally
Forward(method, uri) ==
    /\ ForwardCall(method, uri)
    /\ UNCHANGED << files, jobs, timerVars, updateErr >>

\* the four document notifications
Notifications ==
    {"textDocument/didOpen", "textDocument/didChange", "textDocument/didSave",
     "textDocument/didClose"}

\* server.conn.Call returns and handle returns what it returned
CallReturn(answered) ==
    /\ dispatcher.pc = "call"
    /\ forwarded' = [forwarded EXCEPT !.err = ForwardErr(answered)]
    /\ updateErr' = IF dispatcher.method \in Notifications
                       THEN ForwardErr(answered) ELSE updateErr
    /\ dispatcher' = Idle
    /\ UNCHANGED << configs, logger, storeVars, timerVars, jobVars, formatVars,
                    passthroughServers, lifeVars, pureVars >>

\* a passthrough child exits on its own; the handler does not watch it
ChildExit(key) ==
    /\ passthroughServers[key].alive
    /\ passthroughServers' = [passthroughServers EXCEPT ![key].alive = FALSE]
    /\ UNCHANGED << configs, logger, storeVars, timerVars, jobVars, formatVars, forwarded,
                    quietVars >>

\* an updateFile that takes every uri for known
updateFileErrNone(fs, uri) == ""

\* updateFile, the result: an error for a uri the store does not hold
updateFileErr(fs, uri) == IF fs[uri] = NoFile THEN "document not found" ELSE ""

\* textDocument/didOpen: openFile, then updateFile with eventTypeOpen
handleTextDocumentDidOpen(uri, languageID, version, text) ==
    /\ files' = updateFile(openFile(files, uri, languageID, version), uri, text, << version >>)
    /\ jobs' = Detach(jobs, uri)
    /\ lintRequest(uri, eventTypeOpen)

\* textDocument/didChange: updateFile with eventTypeChange
handleTextDocumentDidChange(uri, text, version) ==
    /\ files' = updateFile(files, uri, text, << version >>)
    /\ IF updateFileErr(files, uri) = ""
          THEN lintRequest(uri, eventTypeChange)
          ELSE UNCHANGED timerVars
    /\ UNCHANGED jobs

\* textDocument/didSave: updateFile with a nil version when the text is
\* included, saveFile otherwise
handleTextDocumentDidSave(uri, text) ==
    /\ files' = IF text # << >> THEN updateFile(files, uri, text, << >>) ELSE files
    /\ IF text = << >> \/ updateFileErr(files, uri) = ""
          THEN lintRequest(uri, eventTypeSave)
          ELSE UNCHANGED timerVars
    /\ UNCHANGED jobs

\* textDocument/didClose: closeFile
handleTextDocumentDidClose(uri) ==
    /\ files' = closeFile(files, uri)
    /\ jobs' = Detach(jobs, uri)
    /\ UNCHANGED timerVars

\* what no textDocument notification touches
routerFrame == << configs, logger, lifeVars, pureVars, running, lastPublishedURIs, lastWsEmitted, formatVars >>

\* handle, for each of the four document notifications: forwarded to the
\* passthrough child or handled locally
DidOpen(uri, languageID, version, text, spawnOK) ==
    /\ dispatcher = Idle
    /\ editorOpen' = editorOpen \cup {uri}
    /\ IF Forwarded(uri, spawnOK)
          THEN Forward("textDocument/didOpen", uri)
          ELSE /\ handleTextDocumentDidOpen(uri, languageID, version, text)
               /\ updateErr' = ""
               /\ UNCHANGED << passVars, dispatcher >>
    /\ UNCHANGED routerFrame

\* the editor numbers the changes of a document upwards
DidChange(uri, text, version, spawnOK) ==
    /\ dispatcher = Idle
    /\ files[uri].Version < version
    /\ IF Forwarded(uri, spawnOK)
          THEN Forward("textDocument/didChange", uri)
          ELSE /\ handleTextDocumentDidChange(uri, text, version)
               /\ updateErr' = updateFileErr(files, uri)
               /\ UNCHANGED << passVars, dispatcher >>
    /\ UNCHANGED << routerFrame, editorOpen >>

DidSave(uri, text, spawnOK) ==
    /\ dispatcher = Idle
    /\ IF Forwarded(uri, spawnOK)
          THEN Forward("textDocument/didSave", uri)
          ELSE /\ handleTextDocumentDidSave(uri, text)
               /\ updateErr' = IF text # << >> THEN updateFileErr(files, uri) ELSE ""
               /\ UNCHANGED << passVars, dispatcher >>
    /\ UNCHANGED << routerFrame, editorOpen >>

DidClose(uri, spawnOK) ==
    /\ dispatcher = Idle
    /\ editorOpen' = editorOpen \ {uri}
    /\ IF Forwarded(uri, spawnOK)
          THEN Forward("textDocument/didClose", uri)
          ELSE /\ handleTextDocumentDidClose(uri)
               /\ updateErr' = ""
               /\ UNCHANGED << passVars, dispatcher >>
    /\ UNCHANGED routerFrame

(***************************************************************************)
(* The method table of handle.                                             *)
(***************************************************************************)
\* the textDocument methods handle reads a uri from
URIMethods ==
    {"textDocument/didOpen", "textDocument/didChange", "textDocument/didSave",
     "textDocument/didClose", "textDocument/formatting",
     "textDocument/rangeFormatting", "textDocument/documentSymbol",
     "textDocument/completion", "textDocument/definition", "textDocument/hover",
     "textDocument/codeAction"}

\* the methods a client may send: those of the switch and three others
Methods ==
    URIMethods \cup
    {"initialize", "initialized", "shutdown", "workspace/executeCommand",
     "workspace/didChangeConfiguration", "workspace/didChangeWorkspaceFolders",
     "workspace/workspaceFolders",
     "textDocument/references", "exit", "$/cancelRequest"}

\* jsonrpc2.CodeMethodNotFound
CodeMethodNotFound == "method not supported"

\* a table without the final return: every method has a handler
handleSwitchNoDefault(method) == method

\* the switch of handle: the handler a method is given to
handleSwitch(method) ==
    CASE method = "initialize" -> "handleInitialize"
      [] method = "initialized" -> "return"
      [] method = "shutdown" -> "handleShutdown"
      [] method = "textDocument/didOpen" -> "handleTextDocumentDidOpen"
      [] method = "textDocument/didChange" -> "handleTextDocumentDidChange"
      [] method = "textDocument/didSave" -> "handleTextDocumentDidSave"
      [] method = "textDocument/didClose" -> "handleTextDocumentDidClose"
      [] method = "textDocument/formatting" -> "handleTextDocumentFormatting"
      [] method = "textDocument/rangeFormatting" -> "handleTextDocumentRangeFormatting"
      [] method = "textDocument/documentSymbol" -> "handleTextDocumentSymbol"
      [] method = "textDocument/completion" -> "handleTextDocumentCompletion"
      [] method = "textDocument/definition" -> "handleTextDocumentDefinition"
      [] method = "textDocument/hover" -> "handleTextDocumentHover"
      [] method = "textDocument/codeAction" -> "handleTextDocumentCodeAction"
      [] method = "workspace/executeCommand" -> "handleWorkspaceExecuteCommand"
      [] method = "workspace/didChangeConfiguration"
            -> "handleWorkspaceDidChangeConfiguration"
      [] method = "workspace/didChangeWorkspaceFolders"
            -> "handleDidChangeWorkspaceWorkspaceFolders"
      [] method = "workspace/workspaceFolders" -> "handleWorkspaceWorkspaceFolders"
      [] OTHER -> CodeMethodNotFound

\* the methods whose handlers the sections above model step by step
Detailed ==
    {"textDocument/didOpen", "textDocument/didChange", "textDocument/didSave",
     "textDocument/didClose", "textDocument/formatting",
     "textDocument/rangeFormatting", "shutdown", "workspace/didChangeConfiguration"}

\* no call has been routed yet
NoRoute == [method |-> "", to |-> ""]

\* handle, for a method outside Detailed: forwarded to the passthrough
\* child of the document when it has one, else given to the switch; uri
\* is "" for a call without a textDocument parameter
handle(method, uri, spawnOK) ==
    /\ dispatcher = Idle
    /\ method \in Methods \ Detailed
    /\ method \notin URIMethods => uri = ""
    /\ IF method \in URIMethods /\ uri # "" /\ Forwarded(uri, spawnOK)
          THEN /\ ForwardCall(method, uri)
               /\ routed' = [method |-> method, to |-> "passthrough"]
          ELSE /\ routed' = [method |-> method, to |-> handleSwitch(method)]
               /\ UNCHANGED << passVars, dispatcher >>
    /\ UNCHANGED << configs, logger, storeVars, timerVars, jobVars, formatVars, lifeVars,
                    updateErr, pipeline, conv, jqrun, probe, subst, located >>

\* the settings of a workspace/didChangeConfiguration: any subset of the
\* properties, with a languages section of S and a logLevel of L
Settings(S, L) ==
    {[languages |-> c] : c \in S} \cup {[logLevel |-> l] : l \in L}
        \cup {[languages |-> c, logLevel |-> l] : c \in S, l \in L} \cup {<< >>}

\* handleWorkspaceDidChangeConfiguration: the properties the settings
\* provide overwrite those of the running server, the others stay; of
\* these the model follows the languages section and the log level
handleWorkspaceDidChangeConfiguration(settings) ==
    /\ configs' = IF "languages" \in DOMAIN settings THEN settings.languages ELSE configs
    /\ logger' = IF "logLevel" \in DOMAIN settings
                     THEN [logger EXCEPT !.loglevel = settings.logLevel]
                     ELSE logger

\* handle, for workspace/didChangeConfiguration
DidChangeConfiguration(settings) ==
    /\ dispatcher = Idle
    /\ handleWorkspaceDidChangeConfiguration(settings)
    /\ routed' = [method |-> "workspace/didChangeConfiguration",
                  to |-> handleSwitch("workspace/didChangeConfiguration")]
    /\ UNCHANGED << storeVars, timerVars, jobVars, formatVars, passVars, lifeVars,
                    updateErr, dispatcher, pipeline, conv, jqrun, probe, subst, located >>

(***************************************************************************)
(* Lint engine: the linter loop and the lint job it spawns per request.    *)
(***************************************************************************)
\* the goroutine the linter loop starts for a request
NewJob(uri, eventType) ==
    [uri |-> uri, eventType |-> eventType, cancelled |-> FALSE, pc |-> "lint",
     f |-> LiveF, configs |-> << >>, i |-> 0,
     uriToDiagnostics |-> << >>, publishedURIs |-> {},
     \* the key the publish loop is at
     diagURI |-> "",
     \* what the job sent: the uri and the version of each notification
     published |-> {},
     \* history of the job: the version at its start, whether a tool was
     \* fed another text than the one at its start, whether it wrote
     \* lastPublishedURIs, the uris its workspace recipes emitted for, the
     \* uris of the previous workspace lint it published nothing for
     startVersion |-> -1, fedOther |-> FALSE, wrote |-> FALSE,
     wsEmitted |-> {}, stale |-> {}]

\* the goroutine of the job is over: its locals are gone
Ended(job) ==
    [job EXCEPT !.pc = "done", !.eventType = "", !.f = LiveF, !.configs = << >>, !.i = 0,
                !.uriToDiagnostics = << >>, !.publishedURIs = {}, !.wsEmitted = {},
                !.diagURI = ""]

\* cancel(): the context of the job is done; a finished job is not affected
Cancel(js, j) ==
    IF j \in DOMAIN js /\ InProgress(js[j])
    THEN [js EXCEPT ![j].cancelled = TRUE]
    ELSE js

\* linter: the callback's send meets the loop's receive; the loop cancels
\* the job running for the uri and starts the next one
LinterReceive(cb) ==
    /\ cb.pc = "send"
    /\ BagIn(cb, callbacks)
    /\ Len(jobs) < MaxJobs
    /\ request = "open"
    /\ callbacks' = callbacks (-) SetToBag({cb})
    /\ jobs' = Append(Cancel(jobs, running[cb.URI]), NewJob(cb.URI, cb.EventType))
    /\ running' = [running EXCEPT ![cb.URI] = Len(jobs) + 1]
    /\ triggered' = triggered \ {cb.URI}
    /\ UNCHANGED << configs, logger, quietVars, storeVars, lintTimer, orphans, burstFires,
                    lastPublishedURIs, lastWsEmitted, passVars, formatVars >>

\* the entries os.ReadDir finds in the directories above a document: a
\* directory .git above document a, a file .git above b
DirEntries(fname) ==
    IF fname = "a" THEN {[name |-> << ".", "g", "i", "t" >>, isDir |-> TRUE]}
    ELSE {[name |-> << ".", "g", "i", "t" >>, isDir |-> FALSE]}

\* filepath.Separator
Separator == "/"

\* the characters of markers and file names, in the order of their code
\* points; NoRune is the zero rune
Runes ==
    << "*", "-", ".", "/", "?", "[", "\\", "]", "^", "a", "b", "c", "g", "i", "t", "x" >>
NoRune == "NUL"
Code(r) == IF r = NoRune THEN 0 ELSE CHOOSE k \in DOMAIN Runes : Runes[k] = r

\* ErrBadPattern out of getEsc, the class loop and matchChunk
BadEsc == [err |-> TRUE, r |-> NoRune, rest |-> << >>]
BadClass == [err |-> TRUE, match |-> FALSE, rest |-> << >>]
BadChunk == [err |-> TRUE, ok |-> FALSE, rest |-> << >>]

\* getEsc: the possibly escaped character at the start of a class
getEsc(chunk) ==
    IF chunk = << >> \/ Head(chunk) \in {"-", "]"} THEN BadEsc
    ELSE LET c == IF Head(chunk) = "\\" THEN Tail(chunk) ELSE chunk
         IN IF c = << >> \/ Tail(c) = << >> THEN BadEsc
            ELSE [err |-> FALSE, r |-> Head(c), rest |-> Tail(c)]

\* the loop of matchChunk over the ranges of a class, up to its "]"
RECURSIVE classRanges(_, _, _, _)
classRanges(chunk, r, nrange, match) ==
    IF chunk # << >> /\ Head(chunk) = "]" /\ nrange > 0
    THEN [err |-> FALSE, match |-> match, rest |-> Tail(chunk)]
    ELSE LET lo == getEsc(chunk)
         IN IF lo.err THEN BadClass
            ELSE IF Head(lo.rest) = "-"
            THEN LET hi == getEsc(Tail(lo.rest))
                 IN IF hi.err THEN BadClass
                    ELSE classRanges(hi.rest, r, nrange + 1,
                             match \/ (Code(lo.r) <= Code(r) /\ Code(r) <= Code(hi.r)))
            ELSE classRanges(lo.rest, r, nrange + 1, match \/ lo.r = r)

\* matchChunk: the chunk, which holds no star outside a class, against the
\* start of s; after a failure the rest of the chunk is still parsed
RECURSIVE matchChunk(_, _, _)
matchChunk(chunk, s, failed) ==
    IF chunk = << >>
    THEN [err |-> FALSE, ok |-> ~failed, rest |-> IF failed THEN << >> ELSE s]
    ELSE LET f == failed \/ s = << >>
             s1 == IF f THEN s ELSE Tail(s)
             Literal(c) == matchChunk(Tail(c), s1, f \/ Head(c) # Head(s))
         IN CASE Head(chunk) = "[" ->
                   LET c1 == Tail(chunk)
                       negated == c1 # << >> /\ Head(c1) = "^"
                       cls == classRanges(IF negated THEN Tail(c1) ELSE c1,
                                          IF f THEN NoRune ELSE Head(s), 0, FALSE)
                   IN IF cls.err THEN BadChunk
                      ELSE matchChunk(cls.rest, s1, f \/ cls.match = negated)
              [] Head(chunk) = "?" ->
                   matchChunk(Tail(chunk), s1, f \/ Head(s) = Separator)
              [] Head(chunk) = "\\" ->
                   IF Tail(chunk) = << >> THEN BadChunk ELSE Literal(Tail(chunk))
              [] OTHER -> Literal(chunk)

\* the Scan loop of scanChunk from position i on: the length of the chunk
RECURSIVE scanEnd(_, _, _)
scanEnd(pattern, i, inrange) ==
    IF i > Len(pattern) THEN Len(pattern)
    ELSE CASE pattern[i] = "\\" -> scanEnd(pattern, i + 2, inrange)
           [] pattern[i] = "[" -> scanEnd(pattern, i + 1, TRUE)
           [] pattern[i] = "]" -> scanEnd(pattern, i + 1, FALSE)
           [] pattern[i] = "*" /\ ~inrange -> i - 1
           [] OTHER -> scanEnd(pattern, i + 1, inrange)

\* the pattern without its leading stars
RECURSIVE dropStars(_)
dropStars(pattern) ==
    IF pattern # << >> /\ Head(pattern) = "*" THEN dropStars(Tail(pattern)) ELSE pattern

\* scanChunk: the leading stars, the chunk up to the next star, the rest
scanChunk(pattern) ==
    LET p == dropStars(pattern)
        n == scanEnd(p, 1, FALSE)
    IN [star |-> p # pattern, chunk |-> SubSeq(p, 1, n), rest |-> SubSeq(p, n + 1, Len(p))]

\* ok, _ := filepath.Match(pattern, name): false for a name that does not
\* match and for a malformed pattern
RECURSIVE Match(_, _)
Match(pattern, name) ==
    IF pattern = << >> THEN name = << >>
    ELSE LET sc == scanChunk(pattern)
             here == matchChunk(sc.chunk, name, FALSE)
             After(i) == matchChunk(sc.chunk, SubSeq(name, i + 2, Len(name)), FALSE)
             \* the skips of the star: none goes past a separator
             skips == {i \in 0..(Len(name) - 1) :
                          /\ \A k \in 0..i : name[k + 1] # Separator
                          /\ After(i).ok
                          /\ ~(sc.rest = << >> /\ After(i).rest # << >>)}
         IN IF sc.star /\ sc.chunk = << >>
            THEN \A k \in DOMAIN name : name[k] # Separator
            ELSE IF here.ok /\ (here.rest = << >> \/ sc.rest # << >>)
            THEN Match(sc.rest, here.rest)
            ELSE IF here.err \/ ~sc.star \/ skips = {} THEN FALSE
            ELSE Match(sc.rest,
                       After(CHOOSE i \in skips : \A k \in skips : i <= k).rest)

\* strings.TrimRight(marker, "/")
RECURSIVE TrimSlashes(_)
TrimSlashes(marker) ==
    IF marker # << >> /\ marker[Len(marker)] = "/"
    THEN TrimSlashes(SubSeq(marker, 1, Len(marker) - 1)) ELSE marker

\* the marker matches the directory entry: a marker with a trailing "/"
\* matches directories only, any other marker files only
markerMatches(marker, file) ==
    IF marker # << >> /\ marker[Len(marker)] = "/"
    THEN file.isDir /\ Match(TrimSlashes(marker), file.name)
    ELSE ~file.isDir /\ Match(marker, file.name)

\* matchRootPath: the directory holding an entry that matches one of the
\* markers ("/" here), "" when none does
matchRootPath(fname, markers) ==
    IF \E file \in DirEntries(fname), marker \in markers : markerMatches(marker, file)
    THEN "/" ELSE ""

\* the recipes a lint job runs: those of the language that pass the
\* requireMarker and event-kind filter, then the wildcard recipes
LintConfigs(languageID, fname, eventType) ==
    LET Keep(cfg) ==
            /\ ~(matchRootPath(fname, cfg.RootMarkers) = "" /\ cfg.RequireMarker)
            /\ ~(eventType = eventTypeOpen /\ ~cfg.LintAfterOpen)
            /\ ~(eventType = eventTypeChange /\ cfg.LintOnSave)
            /\ cfg.LintCommand # ""
        Wild(cfg) == cfg.LintCommand # ""
    IN (IF languageID \in DOMAIN configs
           THEN SelectSeq(configs[languageID], Keep) ELSE << >>)
       \o (IF wildcard \in DOMAIN configs
           THEN SelectSeq(configs[wildcard], Wild) ELSE << >>)

\* Logger.emitLogMessage on the job's goroutine: with publish-logs-to-method
\* set to textDocument/publishDiagnostics every log line is sent by
\* emitDiagnostic as a notification with URI "" and no version
emitLogMessage(job) ==
    IF logger.method = "textDocument/publishDiagnostics"
    THEN [job EXCEPT !.published = @ \cup {[uri |-> "", version |-> 0]}]
    ELSE job

\* a log line under if h.loglevel >= level
Logged(job, level) == IF logger.loglevel >= level THEN emitLogMessage(job) ELSE job

\* the File the job's pointer f leads to
JobFile(job) == IF job.f.live THEN files[job.uri] ELSE job.f.file

\* what a step of a job's goroutine leaves alone
jobFrame ==
    << configs, logger, request, pureVars, updateErr, dispatcher, storeVars, timerVars,
       running, passVars, formatVars >>

\* the runtime's "fatal error: concurrent map read and map write" (or
\* "concurrent map writes"), or a panic of the job's goroutine, which
\* nothing recovers: the process is gone
Fatal == panicked' = TRUE /\ UNCHANGED jobs

\* lint, up to the recipe loop.  The lookup h.files[uri] takes no lock.
\* fault: handle takes a didOpen or a didClose at this moment and
\* openFile or closeFile writes the map under the lookup, which ends the
\* process; otherwise the lookup comes before or after the write
LintStart(j, fault) ==
    /\ j \in DOMAIN jobs
    /\ jobs[j].pc = "lint"
    /\ fault => dispatcher = Idle
    /\ LET job == jobs[j]
           f == files[job.uri]
           cfgs == LintConfigs(f.LanguageID, job.uri, job.eventType)
       IN IF fault THEN Fatal
          ELSE /\ jobs' = [jobs EXCEPT ![j] =
                    IF f = NoFile
                    THEN Ended(emitLogMessage(job))
                    ELSE IF cfgs = << >>
                    THEN Ended(Logged([job EXCEPT !.startVersion = f.Version], 1))
                    ELSE [job EXCEPT !.pc = "recipe", !.eventType = "",
                                     !.startVersion = f.Version, !.configs = cfgs,
                                     !.i = 1,
                                     !.uriToDiagnostics = [u \in {job.uri} |-> << >>]]]
               /\ UNCHANGED panicked
    /\ UNCHANGED << jobFrame, lastPublishedURIs, lastWsEmitted >>

\* uriToDiagnostics with an empty list for every uri of S it lacks
Seed(utd, S) ==
    [u \in DOMAIN utd \cup S |-> IF u \in DOMAIN utd THEN utd[u] ELSE << >>]

\* uriToDiagnostics with diagnostic d appended for every uri of S
AppendAll(utd, S, d) ==
    [u \in DOMAIN utd \cup S |->
        IF u \in S THEN Append(IF u \in DOMAIN utd THEN utd[u] ELSE << >>, d)
        ELSE utd[u]]

\* the next recipe, or the end of the loop
NextRecipe(job) ==
    IF job.i < Len(job.configs)
    THEN [job EXCEPT !.i = @ + 1, !.pc = "recipe"]
    ELSE [job EXCEPT !.pc = "finish"]

\* To publish empty diagnostics when errors are fixed
StaleSeed(job, config) ==
    IF config.LintWorkspace
    THEN [job EXCEPT !.uriToDiagnostics =
             Seed(@, lastPublishedURIs[JobFile(job).LanguageID])]
    ELSE job

\* some recipe of the job is workspace-scoped
WorkspaceScoped(job) ==
    \E k \in DOMAIN job.configs : job.configs[k].LintWorkspace

\* an access to a shared field of the handler: the field, whether it
\* writes, and whether h.mu is held around it
Access(field, write, locked) == [field |-> field, write |-> write, locked |-> locked]

\* the accesses to h.lastPublishedURIs of the recipe loop from the stale
\* seed on, and the accesses to the text of the File
BodyAccesses(config) ==
    (IF config.LintWorkspace THEN {Access("lastPublishedURIs", FALSE, FALSE)} ELSE {})
    \cup (IF config.LintStdin THEN {Access("files", FALSE, FALSE)} ELSE {})

\* the next accesses of a lint job's goroutine.  An access of files is a
\* lookup in the map or a read of the text or version of a File, which
\* updateFile writes in place; f.LanguageID is written by nobody once
\* openFile has built the File, and reading it is no access
JobAccesses(job) ==
    CASE job.pc = "lint" -> {Access("files", FALSE, FALSE)}
      [] job.pc = "recipe" ->
            IF job.configs[job.i].CheckInstall THEN {}
            ELSE BodyAccesses(job.configs[job.i])
      [] job.pc \in {"check", "install"} -> BodyAccesses(job.configs[job.i])
      [] job.pc = "tool" -> {Access("files", FALSE, FALSE)}
      [] job.pc = "finish" ->
            IF WorkspaceScoped(job)
            THEN {Access("lastPublishedURIs", TRUE, FALSE)}
            ELSE {}
      [] job.pc \in {"publish", "version"} -> {Access("files", FALSE, FALSE)}
      [] OTHER -> {}

\* another job's goroutine is about to access h.lastPublishedURIs, which
\* no lock protects, and one of the two accesses writes the map
MapRace(j, write) ==
    \E k \in DOMAIN jobs \ {j} :
        \E a \in JobAccesses(jobs[k]) :
            a.field = "lastPublishedURIs" /\ (write \/ a.write)

\* the recipe loop from the stale seed to cmd.Start, which hands f.Text
\* to the tool of a lint-stdin recipe.  started: the shell was spawned.
\* fault: the range over h.lastPublishedURIs[f.LanguageID] meets another
\* job's write of the map.  An invalid error-format (by the goroutine, on
\* lint's error) and, at log level 3, the output of a command that did
\* not start are logged
RecipeBody(j, job, started, fault) ==
    LET config == job.configs[job.i]
        seeded == StaleSeed(job, config)
    IN  /\ job.cancelled => ~started
        /\ fault => config.LintWorkspace /\ MapRace(j, FALSE)
        /\ IF fault THEN Fatal
           ELSE /\ jobs' = [jobs EXCEPT ![j] =
                     IF config.BadFormats THEN Ended(emitLogMessage(seeded))
                     ELSE IF started
                     THEN [seeded EXCEPT !.pc = "tool",
                              !.fedOther = @ \/ (config.LintStdin
                                  /\ JobFile(job).Text # TextAt(job.startVersion))]
                     ELSE NextRecipe(Logged(seeded, 3))]
                /\ UNCHANGED panicked

\* the top of the recipe loop: a recipe with check-install runs its check
\* command and waits for it, any other recipe goes on to the stale seed
RecipeStart(j, started, fault) ==
    /\ j \in DOMAIN jobs
    /\ jobs[j].pc = "recipe"
    /\ IF jobs[j].configs[jobs[j].i].CheckInstall
          THEN /\ ~started /\ ~fault
               /\ jobs' = [jobs EXCEPT ![j].pc = "check"]
               /\ UNCHANGED panicked
          ELSE RecipeBody(j, jobs[j], started, fault)
    /\ UNCHANGED << jobFrame, lastPublishedURIs, lastWsEmitted >>

\* isToolInstalled returns.  found: the check command exited with zero.
\* A tool that is not installed is logged; with an install command the
\* job runs it and waits for it, without one it logs again and goes on
\* to the next recipe
CheckReturn(j, found, started, fault) ==
    /\ j \in DOMAIN jobs
    /\ jobs[j].pc = "check"
    /\ IF found THEN RecipeBody(j, jobs[j], started, fault)
       ELSE /\ ~started /\ ~fault
            /\ jobs' = [jobs EXCEPT ![j] =
                  IF jobs[j].configs[jobs[j].i].DoInstall
                  THEN [emitLogMessage(jobs[j]) EXCEPT !.pc = "install"]
                  ELSE NextRecipe(emitLogMessage(jobs[j]))]
            /\ UNCHANGED panicked
    /\ UNCHANGED << jobFrame, lastPublishedURIs, lastWsEmitted >>

\* installTool returns.  ok: the install command exited with zero; a
\* failed install is logged and the job goes on to the next recipe
InstallReturn(j, ok, started, fault) ==
    /\ j \in DOMAIN jobs
    /\ jobs[j].pc = "install"
    /\ IF ok THEN RecipeBody(j, jobs[j], started, fault)
       ELSE /\ ~started /\ ~fault
            /\ jobs' = [jobs EXCEPT ![j] = NextRecipe(emitLogMessage(jobs[j]))]
            /\ UNCHANGED panicked
    /\ UNCHANGED << jobFrame, lastPublishedURIs, lastWsEmitted >>

\* the lint-jq branch: every emitted object is appended under its file
DecodeJq(job, config, out) ==
    [job EXCEPT !.uriToDiagnostics = AppendAll(@, out, job.i),
                !.wsEmitted = IF config.LintWorkspace THEN @ \cup out ELSE @]

\* the error-format branch: cross-file entries are dropped unless the
\* recipe is workspace-scoped, which records their uris
DecodeEfm(job, config, out) ==
    LET kept == IF config.LintWorkspace THEN out ELSE out \cap {job.uri}
    IN [job EXCEPT !.uriToDiagnostics = AppendAll(@, kept, job.i),
                   !.publishedURIs = IF config.LintWorkspace THEN @ \cup kept ELSE @,
                   !.wsEmitted = IF config.LintWorkspace THEN @ \cup kept ELSE @]

\* a lint engine that reads the output of every tool
ZeroExitSkippedNever(exit, config) == FALSE

\* the tool exited with zero and the recipe does not ignore exit codes:
\* the output is not read
ZeroExitSkipped(exit, config) == exit = "zero" /\ ~config.LintIgnoreExitCode

\* cmd.CombinedOutput returns.  exit: "killed" (exit code < 0), "zero" or
\* "nonzero"; out: the uris the tool's output has an entry for; json: the
\* output is JSON the filter accepts.  The skipped zero exit is logged,
\* and at log level 3 so is the output that is decoded
ToolExit(j, exit, out, json) ==
    /\ j \in DOMAIN jobs
    /\ jobs[j].pc = "tool"
    /\ LET job == jobs[j]
           config == job.configs[job.i]
       IN  /\ json => config.LintJQ /\ ~config.BadJq
           /\ jobs' = [jobs EXCEPT ![j] =
                IF exit = "killed"
                THEN Ended(job)
                ELSE IF ZeroExitSkipped(exit, config)
                THEN NextRecipe(emitLogMessage(job))
                ELSE IF config.LintJQ /\ json
                THEN NextRecipe(DecodeJq(Logged(job, 3), config, out))
                ELSE NextRecipe(DecodeEfm(Logged(job, 3), config, out))]
    /\ UNCHANGED << configs, logger, quietVars, storeVars, timerVars, running, lastPublishedURIs,
                    lastWsEmitted, passVars, formatVars >>

\* the end of lint: h.lastPublishedURIs is written for a job with a
\* workspace recipe and lint returns uriToDiagnostics to the goroutine.
\* fault: the write meets another job's read or write of the map
Finish(j, fault) ==
    /\ j \in DOMAIN jobs
    /\ jobs[j].pc = "finish"
    /\ LET job == jobs[j]
           lang == JobFile(job).LanguageID
           ws == WorkspaceScoped(job)
       IN  /\ fault => ws /\ MapRace(j, TRUE)
           /\ IF fault THEN Fatal /\ UNCHANGED << lastPublishedURIs, lastWsEmitted >>
              ELSE /\ lastPublishedURIs' = IF ws
                         THEN [lastPublishedURIs EXCEPT ![lang] = job.publishedURIs]
                         ELSE lastPublishedURIs
                   /\ lastWsEmitted' = IF ws
                         THEN [lastWsEmitted EXCEPT ![lang] = job.wsEmitted]
                         ELSE lastWsEmitted
                   /\ jobs' = [jobs EXCEPT ![j] =
                        [Ended(job) EXCEPT !.pc = "publish",
                             !.uriToDiagnostics = job.uriToDiagnostics,
                             !.wrote = ws,
                             !.stale = IF ws
                                       THEN lastWsEmitted[lang] \ DOMAIN job.uriToDiagnostics
                                       ELSE {}]]
                   /\ UNCHANGED panicked
    /\ UNCHANGED jobFrame

\* the uris the job has sent a notification for
PublishedFor(job) == {p.uri : p \in job.published}

\* h.conn.Notify for diagURI with the version; the goroutine returns after
\* the last key of the map
Notified(job, diagURI, version) ==
    LET sent == [job EXCEPT !.pc = "publish", !.diagURI = "",
                     !.published = @ \cup {[uri |-> diagURI, version |-> version]}]
    IN IF DOMAIN job.uriToDiagnostics \subseteq PublishedFor(sent)
       THEN Ended(sent) ELSE sent

\* one pass through the publish loop of the job's goroutine, in the order
\* the map iteration yields the uris, up to the test of the job's
\* document: when the store does not hold it the notification is sent
\* with version 0, else the loop goes on to read the version.  fault: the
\* lookup, which takes no lock, meets the map write of a didOpen or a
\* didClose that handle takes at this moment
Publish(j, diagURI, fault) ==
    /\ j \in DOMAIN jobs
    /\ jobs[j].pc = "publish"
    /\ diagURI \in DOMAIN jobs[j].uriToDiagnostics \ PublishedFor(jobs[j])
    /\ fault => dispatcher = Idle
    /\ LET job == jobs[j]
       IN IF fault THEN Fatal
          ELSE /\ jobs' = [jobs EXCEPT ![j] =
                    IF files[job.uri] = NoFile
                    THEN Notified(job, diagURI, 0)
                    ELSE [job EXCEPT !.pc = "version", !.diagURI = diagURI]]
               /\ UNCHANGED panicked
    /\ UNCHANGED << jobFrame, lastPublishedURIs, lastWsEmitted >>

\* h.files[lintReq.URI].Version, a second lookup: the version is sent with
\* the notification; when a didClose has deleted the entry since the test
\* the lookup yields nil and the goroutine panics.  fault: the lookup
\* meets the map write of a didOpen or a didClose
PublishVersion(j, fault) ==
    /\ j \in DOMAIN jobs
    /\ jobs[j].pc = "version"
    /\ fault => dispatcher = Idle
    /\ LET job == jobs[j]
       IN IF fault \/ files[job.uri] = NoFile
          THEN Fatal
          ELSE /\ jobs' = [jobs EXCEPT ![j] =
                        Notified(job, job.diagURI, files[job.uri].Version)]
               /\ UNCHANGED panicked
    /\ UNCHANGED << jobFrame, lastPublishedURIs, lastWsEmitted >>

(***************************************************************************)
(* Accesses to the shared fields of the handler.  An access names the      *)
(* field, whether it writes, and whether h.mu is held around it.           *)
(***************************************************************************)
\* what the dispatcher does next depends on the message that arrives: the
\* accesses of the document notifications (openFile, updateFile,
\* closeFile, lintRequest), of a format request (rangeFormatRequest,
\* rangeFormatting), of a forwarded call (getPassthroughServer) and of a
\* shutdown (handleShutdown, which ranges over the server map without
\* the mutex)
DispatcherAccesses ==
    {Access("files", TRUE, FALSE), Access("files", FALSE, FALSE),
     Access("lintTimer", FALSE, FALSE), Access("lintTimer", TRUE, FALSE),
     Access("formatTimer", FALSE, FALSE), Access("formatTimer", TRUE, TRUE),
     Access("passthroughServers", FALSE, TRUE),
     Access("passthroughServers", TRUE, TRUE),
     Access("passthroughServers", FALSE, FALSE)}

\* the next access of a lint timer callback: h.lintTimer = nil
CallbackAccesses(cb) ==
    IF cb.pc = "clear" THEN {Access("lintTimer", TRUE, FALSE)} ELSE {}

\* the next access of the format timer's callback: h.formatTimer = nil
FormatCallbackAccesses ==
    IF formatTimer = "fired" THEN {Access("formatTimer", TRUE, TRUE)} ELSE {}

(***************************************************************************)
(* Format engine: the debounce gate in front of the formatter pipeline.    *)
(***************************************************************************)
\* no format request has been answered yet
NoReply == [n |-> 0, uri |-> "", gate |-> Nil, edits |-> Nil, err |-> "", ran |-> 0]

\* what a format request returns: the edits (Nil, "empty" or "diff"), the
\* error, and the number of formatter commands it ran
Reply(edits, err, ran) == [edits |-> edits, err |-> err, ran |-> ran]

\* the formatter recipes of a document: those of its language that pass
\* the requireMarker filter, then the wildcard recipes
FormatConfigs(languageID, fname) ==
    LET Keep(cfg) ==
            /\ cfg.FormatCommand # ""
            /\ ~(matchRootPath(fname, cfg.RootMarkers) = "" /\ cfg.RequireMarker)
        Wild(cfg) == cfg.FormatCommand # ""
    IN (IF languageID \in DOMAIN configs
           THEN SelectSeq(configs[languageID], Keep) ELSE << >>)
       \o (IF wildcard \in DOMAIN configs
           THEN SelectSeq(configs[wildcard], Wild) ELSE << >>)

\* rangeFormatting: ok[k] tells whether the k-th formatter command
\* succeeded; ran counts the formatter commands run
rangeFormatting(uri, ok) ==
    LET f == files[uri]
        cfgs == FormatConfigs(f.LanguageID, uri)
        formatted == \E k \in DOMAIN cfgs : ok[k]
    IN IF f = NoFile THEN Reply(Nil, "document not found", 0)
       ELSE IF cfgs = << >> THEN Reply(Nil, "", 0)
       ELSE IF formatted THEN Reply("diff", "", Len(cfgs))
       ELSE Reply(Nil, "not supported", Len(cfgs))

\* a request handler without the gate: it arms the timer and formats
\* whatever the timer says
rangeFormatRequestNoGate(uri) ==
    [timer |-> "armed", to |-> Waiting("format", "textDocument/formatting", uri)]

\* a request handler that passes the gate without arming the timer
rangeFormatRequestNoArm(uri) ==
    IF formatTimer # Nil
    THEN [timer |-> formatTimer, to |-> Idle]
    ELSE [timer |-> Nil, to |-> Waiting("format", "textDocument/formatting", uri)]

\* rangeFormatRequest, up to the call of rangeFormatting: while the timer
\* is set it returns the empty edit list at once (to: Idle), else it arms
\* the timer, releases the mutex and goes on to format
rangeFormatRequest(uri) ==
    IF formatTimer # Nil
    THEN [timer |-> formatTimer, to |-> Idle]
    ELSE [timer |-> "armed", to |-> Waiting("format", "textDocument/formatting", uri)]

\* the reply of a format request, kept with its request: a running
\* number, the uri and the state of the timer the request met
Answer(uri, gate, r) ==
    [n |-> 1 - formatReply.n, uri |-> uri, gate |-> gate, edits |-> r.edits,
     err |-> r.err, ran |-> r.ran]

\* textDocument/formatting and textDocument/rangeFormatting, up to the
\* first wait of the handler: the call is forwarded, answered with the
\* empty edit list, or on its way through rangeFormatting
Formatting(uri, spawnOK) ==
    /\ dispatcher = Idle
    /\ IF Forwarded(uri, spawnOK)
          THEN ForwardCall("textDocument/formatting", uri) /\ UNCHANGED formatVars
          ELSE LET r == rangeFormatRequest(uri)
               IN /\ formatTimer' = r.timer
                  /\ dispatcher' = r.to
                  /\ formatReply' = IF r.to = Idle
                                       THEN Answer(uri, formatTimer, Reply("empty", "", 0))
                                       ELSE formatReply
                  /\ UNCHANGED passVars
    /\ UNCHANGED << configs, logger, lifeVars, pureVars, updateErr, storeVars, timerVars,
                    jobVars >>

\* rangeFormatting returns: the formatter commands have run (ok[k]: the
\* k-th succeeded) and the request is answered
FormattingReturn(ok) ==
    /\ dispatcher.pc = "format"
    /\ formatReply' = Answer(dispatcher.uri, Nil, rangeFormatting(dispatcher.uri, ok))
    /\ dispatcher' = Idle
    /\ UNCHANGED << configs, logger, lifeVars, pureVars, updateErr, storeVars, timerVars,
                    jobVars, passVars, formatTimer >>

\* the format timer expires
FormatTimerFire ==
    /\ formatTimer = "armed"
    /\ formatTimer' = "fired"
    /\ UNCHANGED << configs, logger, quietVars, storeVars, timerVars, jobVars, passVars,
                    formatReply >>

\* its callback: h.formatTimer = nil
FormatTimerClear ==
    /\ formatTimer = "fired"
    /\ formatTimer' = Nil
    /\ UNCHANGED << configs, logger, quietVars, storeVars, timerVars, jobVars, passVars,
                    formatReply >>

(***************************************************************************)
(* Shutdown.                                                               *)
(***************************************************************************)
\* close(h.request); closing a closed channel panics
closeRequest ==
    /\ request' = "closed"
    /\ panicked' = (request = "closed")

\* handleShutdown: Stop the timer h.lintTimer points to, then the loop
\* over the cached passthrough children, in which it waits for the answer
\* of each child to a shutdown call, then close(h.request)
Shutdown ==
    /\ dispatcher = Idle
    /\ lintTimer' = IF lintTimer # NoTimer
                       THEN [lintTimer EXCEPT !.armed = FALSE] ELSE lintTimer
    /\ LET cached == {key \in Keys : passthroughServers[key] # NoServer}
       IN IF cached = {}
          THEN closeRequest /\ UNCHANGED dispatcher
          ELSE /\ dispatcher' = [Waiting("shutdown", "shutdown", "") EXCEPT !.left = cached]
               /\ UNCHANGED lifeVars
    /\ UNCHANGED << configs, logger, storeVars, orphans, callbacks, burstFires, triggered,
                    jobVars, formatVars, passVars, pureVars, updateErr >>

\* one pass through the loop of handleShutdown: the shutdown call to the
\* child returns, with its answer or with an error, and the child is
\* killed; after the last child, close(h.request)
ShutdownCall(key) ==
    /\ dispatcher.pc = "shutdown"
    /\ key \in dispatcher.left
    /\ passthroughServers' = [passthroughServers EXCEPT ![key].alive = FALSE]
    /\ IF dispatcher.left = {key}
          THEN closeRequest /\ dispatcher' = Idle
          ELSE /\ dispatcher' = [dispatcher EXCEPT !.left = @ \ {key}]
               /\ UNCHANGED lifeVars
    /\ UNCHANGED << configs, logger, storeVars, timerVars, jobVars, formatVars, forwarded,
                    pureVars, updateErr >>

\* the timer callback's h.request <- lintRequest{...} on the closed
\* channel: a send on a closed channel panics
SendOnClosed(cb) ==
    /\ cb.pc = "send"
    /\ BagIn(cb, callbacks)
    /\ request = "closed"
    /\ callbacks' = callbacks (-) SetToBag({cb})
    /\ panicked' = TRUE
    /\ UNCHANGED << configs, logger, storeVars, lintTimer, orphans, burstFires, triggered,
                    jobVars, formatVars, passVars, request, pureVars, updateErr,
                    dispatcher >>

(***************************************************************************)
(* The formatter pipeline of rangeFormatting, recipe by recipe.  A text is *)
(* a sequence of characters; CR is the carriage return.                    *)
(***************************************************************************)
CR == "\r"
Chars == {"x", CR}
FormatTexts == UNION {[1..n -> Chars] : n \in 0..MaxLen}

\* no pipeline run has begun
NoPipeline == [pc |-> "idle"]

\* strings.Replace(string(b), "\r", "", -1)
StripCR(b) == SelectSeq(b, LAMBDA c : c # CR)

\* the length of the longest common prefix of a and b
CommonPrefix(a, b) ==
    LET Same(n) == SubSeq(a, 1, n) = SubSeq(b, 1, n)
        ns == {n \in 0..Len(a) : n <= Len(b) /\ Same(n)}
    IN CHOOSE n \in ns : \A m \in ns : m <= n

\* the length of the longest common suffix of a and b that leaves the
\* first p characters of both alone
CommonSuffix(a, b, p) ==
    LET Same(n) == SubSeq(a, Len(a) - n + 1, Len(a)) = SubSeq(b, Len(b) - n + 1, Len(b))
        ns == {n \in 0..(Len(a) - p) : n <= Len(b) - p /\ Same(n)}
    IN CHOOSE n \in ns : \A m \in ns : m <= n

\* ComputeEdits: no edit for equal texts, else the edit that replaces what
\* lies between the common prefix and the common suffix
ComputeEdits(before, after) ==
    IF before = after THEN << >>
    ELSE LET p == CommonPrefix(before, after)
             q == CommonSuffix(before, after, p)
         IN << [start |-> p, end |-> Len(before) - q,
                newText |-> SubSeq(after, p + 1, Len(after) - q)] >>

\* the text the in-place branch keeps without removing carriage returns
ReadBackRaw(b) == b

\* the text the pipeline keeps of a formatter's output b
ReadBack(b) == StripCR(b)

\* the in-place branch writing the buffer text instead of the pipeline text
InplaceWriteOriginal(run) == run.originalText

\* the in-place branch: the text written to the document's path on disk
\* before the formatter runs
InplaceWrite(run) == run.text

\* past the recipe at run.i
NextFormatter(run) == [run EXCEPT !.i = @ + 1]

\* originalText := f.Text; text := originalText; formatted := false.
\* configs[k] is the FormatInplace of the k-th recipe; the history fields
\* keep, for the last recipe that succeeded, whether it was in-place, the
\* text the pipeline held when it began, the text it wrote to disk and the
\* contents its formatter left there
PipelineBegin(text, cfgs) ==
    /\ pipeline = NoPipeline
    /\ pipeline' = [pc |-> "run", configs |-> cfgs, i |-> 1, originalText |-> text,
                    text |-> text, formatted |-> FALSE, lastInplace |-> FALSE,
                    held |-> << >>, written |-> << >>, left |-> << >>,
                    edits |-> << >>, err |-> ""]
    /\ UNCHANGED << configs, logger, storeVars, timerVars, jobVars, formatVars, passVars,
                    lifeVars, updateErr, dispatcher, conv, calcVars >>

\* one in-place recipe: os.WriteFile (writeOK), the formatter's command
\* (cmdOK: it exits with zero; its error is logged and nothing else),
\* which leaves out in the file whether it fails or not, os.ReadFile
\* (readOK)
FormatInplace(writeOK, cmdOK, out, readOK) ==
    /\ pipeline.pc = "run"
    /\ pipeline.i <= Len(pipeline.configs)
    /\ pipeline.configs[pipeline.i]
    /\ pipeline' =
         IF writeOK /\ readOK
         THEN NextFormatter([pipeline EXCEPT !.formatted = TRUE, !.text = ReadBack(out),
                                !.lastInplace = TRUE, !.held = pipeline.text,
                                !.written = InplaceWrite(pipeline), !.left = out])
         ELSE NextFormatter(pipeline)
    /\ UNCHANGED << configs, logger, storeVars, timerVars, jobVars, formatVars, passVars,
                    lifeVars, updateErr, dispatcher, conv, calcVars >>

\* one stdin/stdout recipe: cmd.Output returns out (ok) or an error
FormatStdout(ok, out) ==
    /\ pipeline.pc = "run"
    /\ pipeline.i <= Len(pipeline.configs)
    /\ ~pipeline.configs[pipeline.i]
    /\ pipeline' =
         IF ok
         THEN NextFormatter([pipeline EXCEPT !.formatted = TRUE, !.text = ReadBack(out),
                                !.lastInplace = FALSE])
         ELSE NextFormatter(pipeline)
    /\ UNCHANGED << configs, logger, storeVars, timerVars, jobVars, formatVars, passVars,
                    lifeVars, updateErr, dispatcher, conv, calcVars >>

\* after the last recipe: the edits, or the "not supported" error
PipelineReturn ==
    /\ pipeline.pc = "run"
    /\ pipeline.i > Len(pipeline.configs)
    /\ pipeline' =
         IF pipeline.formatted
         THEN [pipeline EXCEPT !.pc = "done",
                               !.edits = ComputeEdits(pipeline.originalText, pipeline.text)]
         ELSE [pipeline EXCEPT !.pc = "done", !.err = "not supported"]
    /\ UNCHANGED << configs, logger, storeVars, timerVars, jobVars, formatVars, passVars,
                    lifeVars, updateErr, dispatcher, conv, calcVars >>

(***************************************************************************)
(* From an error-format entry to a diagnostic: the body of the entry loop  *)
(* of lint.  Type is the entry's type letter (NUL when the output has      *)
(* none); a category map takes strings to strings, here sequences of       *)
(* letters.                                                                *)
(***************************************************************************)
NUL == "NUL"
TypeLetters == {"E", "e", "W", "w", "I", "i", "N", "n", "X", NUL}
Entries == [Lnum : 0..MaxLnum, Col : 0..MaxCol, Type : TypeLetters]

\* lint-category-map: none, one that knows X, one that knows X and E by
\* their long names, one that maps X to the empty string
CategoryMaps ==
    { [k \in {} |-> << >>],
      [k \in {"X"} |-> << "W" >>],
      [k \in {"X", "E"} |-> IF k = "X" THEN << "i", "n", "f", "o" >> ELSE << "N" >>],
      [k \in {"X"} |-> << >>] }

LintConfigsOfEntry ==
    [LintOffset : {-1, 0, 1}, LintOffsetColumns : {-1, 0, 1},
     LintCategoryMap : CategoryMaps, LintSeverity : {0, 2, 3}]

\* no entry conversion has begun
NoConv == [pc |-> "idle"]

\* the outcome of an index out of range
Panic == "panic"

\* the column offset added whatever its sign
OffsetColAlways(entry, config) ==
    IF entry.Col > 0 THEN entry.Col + config.LintOffsetColumns ELSE entry.Col

\* entry.Col after the column offset: added when the offset is positive
\* and the tool reported a column
OffsetCol(entry, config) ==
    IF config.LintOffsetColumns > 0 /\ entry.Col > 0
    THEN entry.Col + config.LintOffsetColumns
    ELSE entry.Col

\* the start of the diagnostic's range: line 0 stands for the top line,
\* column 0 for the whole line
StartOf(entry, config) ==
    LET col == OffsetCol(entry, config)
        lnum == IF entry.Lnum = 0 THEN 1 ELSE entry.Lnum
        col1 == IF col = 0 THEN 1 ELSE col
    IN << lnum - 1 - config.LintOffset, col1 - 1 >>

\* entry.Type = []rune(config.LintCategoryMap[string(entry.Type)])[0]: a
\* missing key reads as the empty string, whose first rune does not exist
Translate(type, categoryMap) ==
    IF DOMAIN categoryMap = {} THEN type
    ELSE LET to == IF type \in DOMAIN categoryMap THEN categoryMap[type] ELSE << >>
         IN IF to = << >> THEN Panic ELSE Head(to)

\* a classification that only knows the capital letters
SeverityCapitals(type, config) ==
    CASE type = "E" -> 1
      [] type = "W" -> 2
      [] type = "I" -> 3
      [] type = "N" -> 4
      [] OTHER -> IF config.LintSeverity # 0 THEN config.LintSeverity ELSE 1

\* severity: lintSeverity or 1, overridden by the type letter
Severity(type, config) ==
    CASE type \in {"E", "e"} -> 1
      [] type \in {"W", "w"} -> 2
      [] type \in {"I", "i"} -> 3
      [] type \in {"N", "n"} -> 4
      [] OTHER -> IF config.LintSeverity # 0 THEN config.LintSeverity ELSE 1

\* the loop body panicked before it appended a diagnostic
NoDiagnostic == [panic |-> TRUE, start |-> << >>, severity |-> 0]

\* the diagnostic appended for a valid entry
DiagnosticOf(entry, config) ==
    LET type == Translate(entry.Type, config.LintCategoryMap)
    IN IF type = Panic THEN NoDiagnostic
       ELSE [panic |-> FALSE, start |-> StartOf(entry, config),
             severity |-> Severity(type, config)]

\* one pass through the entry loop; a panic in the job's goroutine ends
\* the process
Convert(entry, config) ==
    /\ conv = NoConv
    /\ conv' = [pc |-> "done", entry |-> entry, config |-> config,
                diag |-> DiagnosticOf(entry, config)]
    /\ panicked' = DiagnosticOf(entry, config).panic
    /\ UNCHANGED << configs, logger, storeVars, timerVars, jobVars, formatVars, passVars,
                    request, updateErr, dispatcher, pipeline, calcVars >>

(***************************************************************************)
(* From an error-format entry to the range of its diagnostic.  A document  *)
(* is a sequence of lines (strings.Split on the newline), a line a         *)
(* sequence of characters of the basic plane: a letter, the underscore or  *)
(* a blank.                                                                *)
(***************************************************************************)
WordChars == {"w", "_", " "}
WordLines == UNION {[1..n -> WordChars] : n \in 0..MaxLen}
\* one line, or one line and a second one
WordDocs == {<< l >> : l \in WordLines} \cup {<< l, << "w" >> >> : l \in WordLines}

\* the file names an entry carries: none, the active document's, another's
EntryFiles == {"", "a", "b"}

RangeEntries == [Lnum : 0..MaxLnum, Col : 0..MaxCol, Filename : EntryFiles]

RangeConfigs ==
    [LintOffset : {-1, 0, 1}, LintOffsetColumns : {-1, 0, 1}, LintWorkspace : BOOLEAN]

NoLocate == [pc |-> "idle"]

\* unicodeclass.Is: blanks apart, letters, digits and the underscore are
\* word characters
Class(c) == IF c = " " THEN "blank" ELSE "word"

\* the loop of WordAt from index i on: << prevPos, currPos >>
RECURSIVE WordBounds(_, _, _, _, _)
WordBounds(chars, i, character, prevPos, prevCls) ==
    IF i >= Len(chars) THEN << prevPos, Len(chars) >>
    ELSE LET currCls == Class(chars[i + 1])
         IN IF currCls = prevCls
            THEN WordBounds(chars, i + 1, character, prevPos, currCls)
            ELSE IF i <= character
            THEN WordBounds(chars, i + 1, character, i, currCls)
            ELSE IF chars[i + 1] = "_"
            THEN WordBounds(chars, i + 1, character, prevPos, prevCls)
            ELSE << prevPos, i >>

\* File.WordAt: the word of the document at a position, "" outside it
WordAt(doc, line, character) ==
    IF line < 0 \/ line >= Len(doc) THEN << >>
    ELSE LET chars == doc[line + 1]
         IN IF character < 0 \/ character > Len(chars) THEN << >>
            ELSE LET bounds == WordBounds(chars, 0, character, 0, "invalid")
                 IN SubSeq(chars, bounds[1] + 1, bounds[2])

\* word: empty for an entry without a column, else the word of the active
\* document at the entry's position
EntryWord(doc, entry, config, uri) ==
    IF OffsetCol(entry, config) = 0 THEN << >>
    ELSE WordAt(doc, StartOf(entry, config)[1], StartOf(entry, config)[2])

\* diagURI: the active document for an entry without a file name
DiagURI(entry, uri) == IF entry.Filename # "" THEN entry.Filename ELSE uri

\* the diagnostic appended for the entry, if any: an entry for another
\* file is dropped unless the recipe is workspace-scoped
RangeOf(doc, entry, config, uri) ==
    LET start == StartOf(entry, config)
        word == EntryWord(doc, entry, config, uri)
    IN [emitted |-> ~(DiagURI(entry, uri) # uri /\ ~config.LintWorkspace),
        uri |-> DiagURI(entry, uri),
        start |-> start,
        end |-> << start[1], start[2] + Len(word) >>]

\* one pass through the entry loop in a job for uri whose document reads doc
Locate(doc, entry, config, uri) ==
    /\ located = NoLocate
    /\ located' = [pc |-> "done", doc |-> doc, entry |-> entry, config |-> config,
                   active |-> uri, diag |-> RangeOf(doc, entry, config, uri)]
    /\ UNCHANGED << configs, logger, storeVars, timerVars, jobVars, formatVars, passVars,
                    lifeVars, updateErr, dispatcher, pipeline, conv, routed, jqrun, probe, subst >>

(***************************************************************************)
(* From an object of the lint-jq filter to a diagnostic: the body of the   *)
(* iterator loop of lint.  A value is an object or not; a key of an object *)
(* is Absent or has a value.                                               *)
(***************************************************************************)
Absent == "absent"

\* the values a filter emits
JqValues ==
    [object : BOOLEAN,
     file : {Absent, "", "a", "b"},
     message : {Absent, "m"},
     severity : {Absent, "error", "warning", "Warning", "information", "info", "hint",
                 "fatal"},
     range : {Absent, << 1, 2 >>}]

NoJq == [pc |-> "idle"]

\* strings.ToLower, on the severities of JqValues
ToLower(x) == IF x = "Warning" THEN "warning" ELSE x

\* the severity switch of the lint-jq branch (on the lower-cased string)
JqSeverity(severityStr) ==
    CASE severityStr = "error" -> 1
      [] severityStr = "warning" -> 2
      [] severityStr \in {"information", "info"} -> 3
      [] severityStr = "hint" -> 4
      [] OTHER -> 1

\* diagMap[key].(string): "" for a key the object lacks
JqString(x) == IF x = Absent THEN "" ELSE x

\* what one emitted value appends to uriToDiagnostics: nothing for a
\* value that is no object, else a diagnostic under the object's file,
\* or under the active uri when the file is empty
JqDiagnostic(v, uri) ==
    IF ~v.object
    THEN [emitted |-> FALSE, uri |-> "", message |-> "", severity |-> 0,
          range |-> << 0, 0 >>]
    ELSE [emitted |-> TRUE,
          uri |-> IF JqString(v.file) # "" THEN JqString(v.file) ELSE uri,
          message |-> JqString(v.message),
          severity |-> JqSeverity(ToLower(JqString(v.severity))),
          range |-> IF v.range = Absent THEN << 0, 0 >> ELSE v.range]

\* one pass through the iterator loop, in a job for uri under a recipe
\* whose LintWorkspace is lintWorkspace
JqObject(v, uri, lintWorkspace) ==
    /\ jqrun = NoJq
    /\ jqrun' = [pc |-> "done", v |-> v, uri |-> uri, LintWorkspace |-> lintWorkspace,
                 diag |-> JqDiagnostic(v, uri)]
    /\ UNCHANGED << configs, logger, storeVars, timerVars, jobVars, formatVars, passVars,
                    lifeVars, updateErr, dispatcher, pipeline, conv, routed, probe, subst, located >>

(***************************************************************************)
(* The install probe: CheckAndInstallTool, which main runs for             *)
(* --check-deps and --install-deps, and the probe at the top of the recipe *)
(* loop of lint.  A recipe keeps whether its check and install commands    *)
(* are set; a command run is its exit status (0 for a nil error) and its   *)
(* combined output.                                                        *)
(***************************************************************************)
SP == " "

Outputs == {<< >>, << SP >>, << "x" >>, << SP, "x" >>}

CommandRuns == [exit : {0, 1}, output : Outputs]

ProbeConfigs == [CheckInstalled : BOOLEAN, Install : BOOLEAN]

NoProbe == [pc |-> "idle"]

\* bytes.TrimSpace
RECURSIVE TrimLeft(_)
TrimLeft(b) == IF b # << >> /\ Head(b) = SP THEN TrimLeft(Tail(b)) ELSE b

RECURSIVE TrimRight(_)
TrimRight(b) ==
    IF b # << >> /\ b[Len(b)] = SP THEN TrimRight(SubSeq(b, 1, Len(b) - 1)) ELSE b

TrimSpace(b) == TrimRight(TrimLeft(b))

\* CheckAndInstallTool's test of a check command: no error and output
\* left after trimming
checkPassed(run) == run.exit = 0 /\ Len(TrimSpace(run.output)) # 0

\* isToolInstalled: cmd.Run returned no error
isToolInstalled(run) == run.exit = 0

\* the outcome of a probe: whether the first check found the tool, whether
\* the install command and the second check were run, whether the probe
\* lets the recipe through
Outcome(installed, ranInstall, rechecked, used) ==
    [installed |-> installed, ranInstall |-> ranInstall, rechecked |-> rechecked,
     used |-> used]

\* CheckAndInstallTool: used stands for the nil error
CheckAndInstallTool(config, isInstallDeps, check, install, recheck) ==
    IF ~config.CheckInstalled THEN Outcome(TRUE, FALSE, FALSE, TRUE)
    ELSE IF checkPassed(check) THEN Outcome(TRUE, FALSE, FALSE, TRUE)
    ELSE IF config.Install /\ isInstallDeps
    THEN IF install.exit # 0 THEN Outcome(FALSE, TRUE, FALSE, FALSE)
         ELSE Outcome(FALSE, TRUE, TRUE, checkPassed(recheck))
    ELSE Outcome(FALSE, FALSE, FALSE, FALSE)

\* the probe of lint: used stands for not taking a continue
lintProbe(config, check, install) ==
    IF ~config.CheckInstalled \/ isToolInstalled(check)
    THEN Outcome(TRUE, FALSE, FALSE, TRUE)
    ELSE IF config.Install
    THEN Outcome(FALSE, TRUE, FALSE, install.exit = 0)
    ELSE Outcome(FALSE, FALSE, FALSE, FALSE)

\* one probe.  where: "deps" for main's loop, "lint" for the recipe loop;
\* the server lints only when it was started without --check-deps and
\* --install-deps, which make main exit after its loop
Probe(where, config, isInstallDeps, check, install, recheck) ==
    /\ probe = NoProbe
    /\ where = "lint" => ~isInstallDeps /\ recheck = check
    /\ probe' = [pc |-> "done", where |-> where, config |-> config,
                 isInstallDeps |-> isInstallDeps, check |-> check,
                 install |-> install, recheck |-> recheck,
                 out |-> IF where = "deps"
                         THEN CheckAndInstallTool(config, isInstallDeps, check,
                                                  install, recheck)
                         ELSE lintProbe(config, check, install)]
    /\ UNCHANGED << configs, logger, storeVars, timerVars, jobVars, formatVars, passVars,
                    lifeVars, updateErr, dispatcher, pipeline, conv, routed, jqrun, subst, located >>

(***************************************************************************)
(* Command templates.  A command, a file name, a root path, the name of a  *)
(* formatting option and the text of its value are strings: sequences of   *)
(* characters.  The name of an option goes into the four regexps as it     *)
(* stands; the names here are made of letters, the dot, the star and the   *)
(* opening parenthesis.                                                    *)
(***************************************************************************)
Letters ==
    {"a", "b", "c", "d", "e", "f", "g", "h", "i", "j", "k", "l", "m", "n", "o", "p",
     "q", "r", "s", "t", "u", "v", "w", "x", "y", "z", "A", "B", "C", "D", "E", "F",
     "G", "H", "I", "J", "K", "L", "M", "N", "O", "P", "Q", "R", "S", "T", "U", "V",
     "W", "X", "Y", "Z"}
Digits == {"0", "1", "2", "3", "4", "5", "6", "7", "8", "9"}

RECURSIVE Concat(_)
Concat(pieces) == IF pieces = << >> THEN << >> ELSE Head(pieces) \o Concat(Tail(pieces))

\* ${ and what stands between the braces and }
Braced(inner) == << "$", "{" >> \o inner \o << "}" >>

PhInput == Braced(<< "I", "N", "P", "U", "T" >>)
PhFileExt == Braced(<< "F", "I", "L", "E", "E", "X", "T" >>)
PhFileName == Braced(<< "F", "I", "L", "E", "N", "A", "M", "E" >>)
PhRoot == Braced(<< "R", "O", "O", "T" >>)

tabSize == << "t", "a", "b", "S", "i", "z", "e" >>
insertSpaces == << "i", "n", "s", "e", "r", "t", "S", "p", "a", "c", "e", "s" >>

\* the pieces of a format-command: "fmt ", the four file placeholders,
\* ${o}, ${-t:tabSize}, ${-s=insertSpaces}, ${-n:!insertSpaces}, ${-a:x}
TemplatePieces ==
    {<< "f", "m", "t", " " >>, PhInput, PhFileExt, PhFileName, PhRoot,
     Braced(<< "o" >>),
     Braced(<< "-", "t", ":" >> \o tabSize),
     Braced(<< "-", "s", "=" >> \o insertSpaces),
     Braced(<< "-", "n", ":", "!" >> \o insertSpaces),
     Braced(<< "-", "a", ":", "x" >>)}

Templates == {Concat(t) : t \in UNION {[1..n -> TemplatePieces] : n \in 1..MaxTokens}}

\* a plain name, a name with brackets and an extension, a name in a
\* directory whose name has a dot; a root with a bracket
FileNames == {<< "a" >>, << "(", "a", ")", ".", "c" >>, << "d", ".", "e", "/", "a" >>}
RootPaths == {<< "(", "r" >>}

\* formatting options: a name and a value, which is a boolean or not; text
\* is what %v prints of a value that is no boolean
BoolValue(b) == [bool |-> TRUE, b |-> b, text |-> << >>]
TextValue(t) == [bool |-> FALSE, b |-> FALSE, text |-> t]

\* tabSize 4, insertSpaces true or false, x with a value that is itself an
\* option placeholder or a reference to the flag, an option whose name is
\* the regexp .* and one whose name does not compile
Options ==
    {[name |-> tabSize, v |-> TextValue(<< "4" >>)],
     [name |-> << "x" >>, v |-> TextValue(Braced(<< "-", "t", ":" >> \o tabSize))],
     [name |-> << "x" >>, v |-> TextValue(<< "$", "1" >>)],
     [name |-> << ".", "*" >>, v |-> TextValue(<< "9" >>)],
     [name |-> << "(" >>, v |-> TextValue(<< "4" >>)]}
    \cup {[name |-> insertSpaces, v |-> BoolValue(b)] : b \in BOOLEAN}

\* the options of a request in the order the map iteration yields them: a
\* map holds a name once
OptionLists ==
    {<< >>} \cup {<< o >> : o \in Options}
    \cup {q \in Options \X Options : q[1].name # q[2].name}

NoSubst == [pc |-> "idle"]

\* escapeBrackets: a backslash in front of every parenthesis
RECURSIVE escapeBrackets(_)
escapeBrackets(path) ==
    IF path = << >> THEN << >>
    ELSE (IF Head(path) \in {"(", ")"} THEN << "\\", Head(path) >> ELSE << Head(path) >>)
         \o escapeBrackets(Tail(path))

\* the loop of filepath.Ext: from the end of the path back to the last
\* dot, given up at a path separator
RECURSIVE ExtFrom(_, _)
ExtFrom(path, i) ==
    IF i < 1 \/ path[i] = "/" THEN << >>
    ELSE IF path[i] = "." THEN SubSeq(path, i, Len(path))
    ELSE ExtFrom(path, i - 1)

\* strings.TrimPrefix(filepath.Ext(fname), "."): what follows the last dot
\* of the last element of the path
Ext(fname) ==
    LET ext == ExtFrom(fname, Len(fname))
    IN IF ext # << >> /\ Head(ext) = "." THEN Tail(ext) ELSE ext

\* filepath.FromSlash where the separator is the slash
FromSlash(fname) == fname

\* strings.HasPrefix(s[i-1:], t)
HasAt(s, i, t) == i + Len(t) - 1 <= Len(s) /\ SubSeq(s, i, i + Len(t) - 1) = t

\* strings.Contains(s, t)
Contains(s, t) == \E i \in 1..Len(s) : HasAt(s, i, t)

\* strings.Replace(s[i-1:], old, new, -1) for a non-empty old: the
\* occurrences from left to right, none overlapping the one before
RECURSIVE ReplaceFrom(_, _, _, _)
ReplaceFrom(s, i, old, new) ==
    IF i > Len(s) THEN << >>
    ELSE IF HasAt(s, i, old) THEN new \o ReplaceFrom(s, i + Len(old), old, new)
    ELSE << s[i] >> \o ReplaceFrom(s, i + 1, old, new)

replaceCommandInputFilename(command, fname, rootPath) ==
    LET ext == Ext(fname)
        c1 == ReplaceFrom(command, 1, PhInput, escapeBrackets(fname))
        c2 == ReplaceFrom(c1, 1, PhFileExt, ext)
        c3 == ReplaceFrom(c2, 1, PhFileName, escapeBrackets(FromSlash(fname)))
    IN ReplaceFrom(c3, 1, PhRoot, escapeBrackets(rootPath))

\* regexp.Compile of \${([^:|^}]+):NAME}, \${([^=|^}]+)=NAME} and their
\* negated forms, where tail is the text after the group: the separator,
\* the name as it stands and the closing brace.  An opening parenthesis is
\* never closed and a star may not follow a star: err.  Otherwise the
\* tail is a sequence of atoms: a character, or any character for the
\* dot, any number of times when a star follows
Compile(stop, tail) ==
    LET at == SelectSeq([i \in DOMAIN tail |-> i], LAMBDA i : tail[i] # "*")
    IN [err |-> \/ \E i \in DOMAIN tail : tail[i] = "("
                \/ \E i \in 1..(Len(tail) - 1) : tail[i] = "*" /\ tail[i + 1] = "*",
        stop |-> stop,
        atoms |-> [k \in DOMAIN at |->
                      [c |-> tail[at[k]], any |-> tail[at[k]] = ".",
                       star |-> at[k] < Len(tail) /\ tail[at[k] + 1] = "*"]]]

\* the atoms from the k-th on against s from position p: the position
\* after the match the regexp prefers (a star takes all it can and gives
\* back one at a time), 0 when there is none
RECURSIVE MatchAtoms(_, _, _, _)
MatchAtoms(atoms, k, s, p) ==
    IF k > Len(atoms) THEN p
    ELSE LET hit == p <= Len(s) /\ (atoms[k].any \/ s[p] = atoms[k].c)
         IN IF ~atoms[k].star
            THEN IF hit THEN MatchAtoms(atoms, k + 1, s, p + 1) ELSE 0
            ELSE LET more == IF hit THEN MatchAtoms(atoms, k, s, p + 1) ELSE 0
                 IN IF more # 0 THEN more ELSE MatchAtoms(atoms, k + 1, s, p)

\* the length of the longest run from position p of characters outside stop
RECURSIVE ClassRun(_, _, _)
ClassRun(s, p, stop) ==
    IF p > Len(s) \/ s[p] \in stop THEN 0 ELSE 1 + ClassRun(s, p + 1, stop)

NoMatch == [g |-> 0, end |-> 0]

\* the group ([^...]+) of g characters after the ${ at position i, then
\* the tail: the longest group first
RECURSIVE MatchGroup(_, _, _, _)
MatchGroup(re, s, i, g) ==
    IF g < 1 THEN NoMatch
    ELSE LET end == MatchAtoms(re.atoms, 1, s, i + 2 + g)
         IN IF end # 0 THEN [g |-> g, end |-> end] ELSE MatchGroup(re, s, i, g - 1)

\* the match of the regexp that begins at position i
MatchAt(re, s, i) ==
    IF HasAt(s, i, << "$", "{" >>)
    THEN MatchGroup(re, s, i, ClassRun(s, i + 2, re.stop))
    ELSE NoMatch

\* the length of the name of a variable of a replacement template:
\* letters, digits and underscores
RECURSIVE NameLen(_, _)
NameLen(str, p) ==
    IF p <= Len(str) /\ str[p] \in Letters \cup Digits \cup {"_"}
    THEN 1 + NameLen(str, p + 1)
    ELSE 0

\* regexp.extract on what follows a dollar sign: $name or ${name}
extract(str) ==
    LET brace == str # << >> /\ Head(str) = "{"
        body == IF brace THEN Tail(str) ELSE str
        n == NameLen(body, 1)
    IN [ok |-> n > 0 /\ (brace => n < Len(body) /\ body[n + 1] = "}"),
        name |-> SubSeq(body, 1, n),
        rest |-> SubSeq(body, n + 1 + (IF brace THEN 1 ELSE 0), Len(body))]

\* Regexp.expand: $$ is a dollar sign, $0 the match, $1 the group, any
\* other variable nothing, and a dollar sign that begins no variable
\* stands for itself
RECURSIVE Expand(_, _, _)
Expand(template, match, group) ==
    IF template = << >> THEN << >>
    ELSE IF Head(template) # "$"
    THEN << Head(template) >> \o Expand(Tail(template), match, group)
    ELSE LET after == Tail(template)
             x == extract(after)
         IN IF after # << >> /\ Head(after) = "$"
            THEN << "$" >> \o Expand(Tail(after), match, group)
            ELSE IF ~x.ok THEN << "$" >> \o Expand(after, match, group)
            ELSE (IF x.name = << "0" >> THEN match
                  ELSE IF x.name = << "1" >> THEN group
                  ELSE << >>)
                 \o Expand(x.rest, match, group)

\* re.ReplaceAllString(s[i-1:], repl): the matches from left to right,
\* none overlapping the one before
RECURSIVE ReplaceAllFrom(_, _, _, _)
ReplaceAllFrom(re, s, i, repl) ==
    IF i > Len(s) THEN << >>
    ELSE LET m == MatchAt(re, s, i)
         IN IF m.end # 0
            THEN Expand(repl, SubSeq(s, i, m.end - 1), SubSeq(s, i + 2, i + 1 + m.g))
                 \o ReplaceAllFrom(re, s, m.end, repl)
            ELSE << s[i] >> \o ReplaceAllFrom(re, s, i + 1, repl)

\* the switch on the value of one formatting option: "$1 %v" and "$1=%v"
\* for a value that is no boolean, "$1" through the plain regexps for
\* true and through the negated ones for false
Bind(command, re, re2, nre, nre2, v) ==
    IF ~v.bool
    THEN ReplaceAllFrom(re2,
                        ReplaceAllFrom(re, command, 1, << "$", "1", " " >> \o v.text),
                        1, << "$", "1", "=" >> \o v.text)
    ELSE IF v.b
    THEN ReplaceAllFrom(re2, ReplaceAllFrom(re, command, 1, << "$", "1" >>),
                        1, << "$", "1" >>)
    ELSE ReplaceAllFrom(nre2, ReplaceAllFrom(nre, command, 1, << "$", "1" >>),
                        1, << "$", "1" >>)

\* one pass of the loop over the formatting options: the four regexps of
\* the option, compiled from its name, and the replacement its value
\* selects; the recipe is given up when a regexp does not compile
ApplyOption(command, placeholder, v) ==
    LET re == Compile({":", "|", "^", "}"}, << ":" >> \o placeholder \o << "}" >>)
        re2 == Compile({"=", "|", "^", "}"}, << "=" >> \o placeholder \o << "}" >>)
        nre == Compile({":", "|", "^", "}"}, << ":", "!" >> \o placeholder \o << "}" >>)
        nre2 == Compile({"=", "|", "^", "}"}, << "=", "!" >> \o placeholder \o << "}" >>)
    IN IF re.err \/ re2.err \/ nre.err \/ nre2.err
       THEN [ok |-> FALSE, command |-> command]
       ELSE [ok |-> TRUE, command |-> Bind(command, re, re2, nre, nre2, v)]

\* the loop over the options, in the order the map iteration yields them
RECURSIVE ApplyOptions(_, _)
ApplyOptions(command, options) ==
    IF options = << >> THEN [ok |-> TRUE, command |-> command]
    ELSE LET one == ApplyOption(command, Head(options).name, Head(options).v)
         IN IF one.ok THEN ApplyOptions(one.command, Tail(options)) ELSE one

\* the position of the first closing brace from position p on, 0 when
\* there is none
RECURSIVE BraceFrom(_, _)
BraceFrom(s, p) ==
    IF p > Len(s) THEN 0 ELSE IF s[p] = "}" THEN p ELSE BraceFrom(s, p + 1)

\* the last regexp, \${[^}]*}, replaced by nothing: every ${ up to the
\* next closing brace goes
RECURSIVE StripFrom(_, _)
StripFrom(s, i) ==
    IF i > Len(s) THEN << >>
    ELSE LET close == IF HasAt(s, i, << "$", "{" >>) THEN BraceFrom(s, i + 2) ELSE 0
         IN IF close # 0 THEN StripFrom(s, close + 1)
            ELSE << s[i] >> \o StripFrom(s, i + 1)

StripPlaceholders(command) == StripFrom(command, 1)

\* a ${...} in a command: the text the last regexp matches
HasPlaceholder(command) ==
    \E i \in DOMAIN command : HasAt(command, i, << "$", "{" >>) /\ BraceFrom(command, i + 2) # 0

\* the command the stdin/stdout branch of rangeFormatting runs for a
\* whole-document request, or no command when the recipe is given up
formatCommand(command, formatStdin, fname, rootPath, options) ==
    LET c0 == IF ~formatStdin /\ ~Contains(command, PhInput)
              THEN command \o << " " >> \o PhInput
              ELSE command
        bound == ApplyOptions(replaceCommandInputFilename(c0, fname, rootPath), options)
    IN IF bound.ok THEN [ok |-> TRUE, command |-> StripPlaceholders(bound.command)]
       ELSE [ok |-> FALSE, command |-> << >>]

\* the command the in-place branch of rangeFormatting runs: the file
\* placeholders are bound and nothing else is done
inplaceCommand(command, fname, rootPath) ==
    replaceCommandInputFilename(command, fname, rootPath)

\* the options in the other order
RECURSIVE Reverse(_)
Reverse(q) == IF q = << >> THEN << >> ELSE Append(Reverse(Tail(q)), Head(q))

\* one command of the format engine: the command run, the command the
\* other iteration order would have given, the command the engine makes
\* of its own result, and the command run were the recipe in-place
Substitute(command, formatStdin, fname, rootPath, options) ==
    /\ subst = NoSubst
    /\ LET result == formatCommand(command, formatStdin, fname, rootPath, options)
       IN subst' = [pc |-> "done", command |-> command, FormatStdin |-> formatStdin,
                    fname |-> fname, rootPath |-> rootPath, options |-> options,
                    result |-> result,
                    reversed |-> formatCommand(command, formatStdin, fname, rootPath,
                                               Reverse(options)),
                    again |-> IF result.ok
                              THEN formatCommand(result.command, formatStdin, fname,
                                                 rootPath, options)
                              ELSE result,
                    inplace |-> inplaceCommand(command, fname, rootPath)]
    /\ UNCHANGED << configs, logger, storeVars, timerVars, jobVars, formatVars, passVars,
                    lifeVars, updateErr, dispatcher, pipeline, conv, routed, jqrun, probe, located >>

(***************************************************************************)
(* Specification.                                                          *)
(***************************************************************************)

\* NewHandler
Init ==
    /\ configs \in Configs
    /\ logger \in Loggers
    /\ files = [u \in URIs |-> NoFile]
    /\ lintTimer = NoTimer
    /\ orphans = << >>
    /\ callbacks = EmptyBag
    /\ running = [u \in URIs |-> 0]
    /\ jobs = << >>
    /\ lastPublishedURIs = [l \in Langs |-> {}]
    /\ passthroughServers = [key \in Keys |-> NoServer]
    /\ formatTimer = Nil
    /\ formatReply = NoReply
    /\ editorOpen = {}
    /\ burstFires = 0
    /\ triggered = {}
    /\ lastWsEmitted = [l \in Langs |-> {}]
    /\ request = "open"
    /\ panicked = FALSE
    /\ updateErr = ""
    /\ forwarded = NoForward
    /\ dispatcher = Idle
    /\ pipeline = NoPipeline
    /\ conv = NoConv
    /\ routed = NoRoute
    /\ jqrun = NoJq
    /\ probe = NoProbe
    /\ subst = NoSubst
    /\ located = NoLocate

\* the notifications the editor sends about the documents of S
Editor(S) ==
    \E uri \in S, spawnOK \in BOOLEAN :
        \/ \E l \in Langs, v \in Versions : DidOpen(uri, l, v, TextAt(v), spawnOK)
        \/ \E v \in Versions : DidChange(uri, TextAt(v), v, spawnOK)
        \/ \E t \in {<< >>, files[uri].Text} : DidSave(uri, t, spawnOK)
        \/ DidClose(uri, spawnOK)

\* the Go runtime's timer and the goroutines of its callbacks
Timers ==
    \/ TimerFire
    \/ \E cb \in BagToSet(callbacks) : CallbackClear(cb)
    \/ \E cb \in BagToSet(callbacks) : LinterReceive(cb)

\* the steps of the lint job goroutines
\* writing: the editor may send a didOpen or a didClose at this moment
Jobs(writing) ==
    \E j \in 1..MaxJobs :
        \/ \E fault \in {FALSE, writing} : LintStart(j, fault)
        \/ \E started, fault \in BOOLEAN : RecipeStart(j, started, fault)
        \/ \E exit \in {"killed", "zero", "nonzero"}, out \in SUBSET URIs,
              json \in BOOLEAN : ToolExit(j, exit, out, json)
        \/ \E fault \in BOOLEAN : Finish(j, fault)
        \/ \E diagURI \in URIs, fault \in {FALSE, writing} : Publish(j, diagURI, fault)
        \/ \E fault \in {FALSE, writing} : PublishVersion(j, fault)

\* the returns of the commands of a recipe's install probe
Probes ==
    \E j \in 1..MaxJobs, started, fault \in BOOLEAN :
        \/ \E found \in BOOLEAN : CheckReturn(j, found, started, fault)
        \/ \E ok \in BOOLEAN : InstallReturn(j, ok, started, fault)

\* format requests and the format timer
Format ==
    \/ \E uri \in URIs, spawnOK \in BOOLEAN : Formatting(uri, spawnOK)
    \/ \E ok \in [1..MaxFormatters -> BOOLEAN] : FormattingReturn(ok)
    \/ FormatTimerFire
    \/ FormatTimerClear

\* the calls of the methods without a detailed handler, and the changes
\* of the configuration to one of S
Router(S) ==
    \/ \E method \in Methods, uri \in URIs \cup {""}, spawnOK \in BOOLEAN :
          handle(method, uri, spawnOK)
    \/ \E settings \in Settings(S, {1, 3}) : DidChangeConfiguration(settings)

\* the passthrough children: the answer to a forwarded call, the exit of
\* a child
Children ==
    \/ \E answered \in BOOLEAN : CallReturn(answered)
    \/ \E key \in Keys : ChildExit(key)

\* the shutdown request and the send of a timer callback that comes after
\* it
Lifecycle ==
    \/ Shutdown
    \/ \E key \in Keys : ShutdownCall(key)
    \/ \E cb \in BagToSet(callbacks) : SendOnClosed(cb)

\* the whole server; a panic ends the process
Next ==
    /\ ~panicked
    /\ \/ Editor(URIs) \/ Router(Configs) \/ Timers \/ Jobs(TRUE) \/ Probes
       \/ Format \/ Children \/ Lifecycle

Spec == Init /\ [][Next]_vars

\* the lint engine at work on one open document of a workspace
InitLint == Init /\ logger = Quiet /\ configs \in {CfgWorkspace, CfgTwo, CfgJq}

\* the editor opens document a, changes it and saves it, and is quiet
\* while a lint timer is armed or a timer callback is in flight
NextLint ==
    /\ ~panicked
    /\ \/ /\ callbacks = EmptyBag /\ ~WindowOpen
          /\ \/ DidOpen("a", "md", 1, TextAt(1), FALSE)
             \/ \E v \in Versions : DidChange("a", TextAt(v), v, FALSE)
             \/ DidSave("a", << >>, FALSE)
       \/ Timers
       \/ Jobs(callbacks = EmptyBag /\ ~WindowOpen)
       \/ Probes

SpecLint == InitLint /\ [][NextLint]_vars

\* the debouncer and the linter loop, fed by every document
InitDebounce == Init /\ logger = Quiet /\ configs = CfgWorkspace

NextDebounce == Editor(URIs) \/ Timers

SpecDebounce == InitDebounce /\ [][NextDebounce]_vars

\* the document store behind the router
InitStore == Init /\ logger = Quiet /\ configs \in {CfgTwo, CfgPass}

NextStore ==
    \/ Editor(URIs)
    \/ \E answered \in BOOLEAN : CallReturn(answered)
    \/ \E settings \in Settings({CfgTwo, CfgPass}, {}) : DidChangeConfiguration(settings)

SpecStore == InitStore /\ [][NextStore]_vars

\* the format gate
InitFormat == Init /\ logger = Quiet /\ configs \in {CfgTwo, CfgWorkspace}

NextFormat ==
    \/ Editor({"a"})
    \/ Format
    \/ \E settings \in Settings({CfgTwo, CfgWorkspace}, {}) : DidChangeConfiguration(settings)

SpecFormat == InitFormat /\ [][NextFormat]_vars

\* the format gate in front of documents with and without a passthrough
\* child
InitGate == Init /\ logger = Quiet /\ configs \in {CfgTwo, CfgPass}

NextGate ==
    \/ Editor({"a"})
    \/ Format
    \/ \E answered \in BOOLEAN : CallReturn(answered)
    \/ \E settings \in Settings({CfgTwo, CfgPass}, {}) : DidChangeConfiguration(settings)

SpecGate == InitGate /\ [][NextGate]_vars

\* the router in front of the passthrough children, up to and after the
\* one shutdown request of the editor
InitPassthrough == Init /\ logger = Quiet /\ configs = CfgPass

NextPassthrough ==
    \/ Editor(URIs)
    \/ Children
    \/ request = "open" /\ Shutdown
    \/ \E key \in Keys : ShutdownCall(key)
    \/ \E settings \in Settings({CfgPass, CfgPassAlt, CfgTwo}, {}) :
          DidChangeConfiguration(settings)

SpecPassthrough == InitPassthrough /\ [][NextPassthrough]_vars

\* the debouncer around a shutdown; a panic ends the process
InitShutdown == Init /\ logger = Quiet /\ configs = CfgWorkspace

NextShutdown ==
    \/ ~panicked /\ Editor({"a"})
    \/ ~panicked /\ TimerFire
    \/ ~panicked /\ \E cb \in BagToSet(callbacks) : CallbackClear(cb)
    \/ ~panicked /\ \E cb \in BagToSet(callbacks) : LinterReceive(cb)
    \/ ~panicked /\ Shutdown
    \/ ~panicked /\ \E cb \in BagToSet(callbacks) : SendOnClosed(cb)

SpecShutdown == InitShutdown /\ [][NextShutdown]_vars

\* one run of the formatter pipeline over every buffer text, every chain
\* of in-place and stdin/stdout recipes and every outcome of each recipe
InitPipeline == Init /\ logger = Quiet /\ configs = CfgTwo

NextPipeline ==
    \/ \E text \in FormatTexts, n \in 1..MaxFormatters :
          \E cfgs \in [1..n -> BOOLEAN] : PipelineBegin(text, cfgs)
    \/ \E writeOK, cmdOK, readOK \in BOOLEAN, out \in FormatTexts :
          FormatInplace(writeOK, cmdOK, out, readOK)
    \/ \E ok \in BOOLEAN, out \in FormatTexts : FormatStdout(ok, out)
    \/ PipelineReturn

SpecPipeline == InitPipeline /\ [][NextPipeline]_vars

\* the entry loop over every entry and every recipe configuration
InitEntry == Init /\ logger = Quiet /\ configs = CfgWorkspace

NextEntry == \E entry \in Entries, config \in LintConfigsOfEntry : Convert(entry, config)

SpecEntry == InitEntry /\ [][NextEntry]_vars

\* the method table: the editor's notifications about one document and
\* the calls of every other method
InitRouter == Init /\ logger = Quiet /\ configs \in {CfgPass, CfgWorkspace}

NextRouter ==
    \/ Editor({"a"})
    \/ Router(Configs \ {CfgPassAlt})
    \/ \E answered \in BOOLEAN : CallReturn(answered)

SpecRouter == InitRouter /\ [][NextRouter]_vars

\* the lint-jq branch, one emitted value per run
InitJq == Init /\ logger = Quiet /\ configs = CfgJq

NextJq ==
    \E v \in JqValues, uri \in URIs, lintWorkspace \in BOOLEAN :
        JqObject(v, uri, lintWorkspace)

SpecJq == InitJq /\ [][NextJq]_vars

\* the install probes, one probe per run
InitProbe == Init /\ logger = Quiet /\ configs = CfgTwo

NextProbe ==
    \E where \in {"deps", "lint"}, config \in ProbeConfigs, isInstallDeps \in BOOLEAN,
       check \in CommandRuns, install \in CommandRuns, recheck \in CommandRuns :
        Probe(where, config, isInstallDeps, check, install, recheck)

SpecProbe == InitProbe /\ [][NextProbe]_vars

\* command templates, one command per run
InitSubst == Init /\ logger = Quiet /\ configs = CfgTwo

NextSubst ==
    /\ subst = NoSubst
    /\ \E command \in Templates, formatStdin \in BOOLEAN, fname \in FileNames,
          rootPath \in RootPaths, options \in OptionLists :
            Substitute(command, formatStdin, fname, rootPath, options)

SpecSubst == InitSubst /\ [][NextSubst]_vars

\* every textDocument method for one document of a language with a
\* passthrough spec
InitForward == Init /\ logger = Quiet /\ configs = CfgPass

NextForward ==
    \/ Editor({"a"})
    \/ \E method \in URIMethods, spawnOK \in BOOLEAN : handle(method, "a", spawnOK)
    \/ \E spawnOK \in BOOLEAN : Formatting("a", spawnOK)
    \/ \E ok \in [1..MaxFormatters -> BOOLEAN] : FormattingReturn(ok)
    \/ FormatTimerFire
    \/ FormatTimerClear
    \/ Children
    \/ \E settings \in Settings({CfgPass, CfgTwo}, {}) : DidChangeConfiguration(settings)

SpecForward == InitForward /\ [][NextForward]_vars

\* bursts of triggers of every kind: document a is opened, changed and
\* saved, document b is saved, and each request's job selects its recipes
InitBurst == Init /\ logger = Quiet /\ configs = CfgWild

NextBurst ==
    /\ ~panicked
    /\ \/ \E v \in Versions : DidOpen("a", "md", v, TextAt(v), FALSE)
       \/ \E v \in Versions : DidChange("a", TextAt(v), v, FALSE)
       \/ \E uri \in URIs : DidSave(uri, << >>, FALSE)
       \/ Timers
       \/ \E j \in 1..MaxJobs, fault \in BOOLEAN : LintStart(j, fault)
       \/ \E settings \in Settings({CfgWild, CfgExit}, {}) :
             DidChangeConfiguration(settings)

SpecBurst == InitBurst /\ [][NextBurst]_vars

\* the ranges of the entry loop, one entry per run
InitRange == Init /\ logger = Quiet /\ configs = CfgWorkspace

NextRange ==
    /\ located = NoLocate
    /\ \E doc \in WordDocs, entry \in RangeEntries, config \in RangeConfigs :
          Locate(doc, entry, config, "a")

SpecRange == InitRange /\ [][NextRange]_vars

\* the recipe loop: one document, opened again each time the server has
\* come to rest
InitRecipes == Init /\ configs \in {CfgExit, CfgNoOpen, CfgBad, CfgJqFile}

AtRest ==
    /\ ~WindowOpen /\ callbacks = EmptyBag
    /\ \A j \in DOMAIN jobs : ~InProgress(jobs[j])

NextRecipes ==
    \/ /\ AtRest
       /\ \E v \in Versions, spawnOK \in BOOLEAN :
             DidOpen("a", "md", v, TextAt(v), spawnOK)
    \/ Timers
    \/ Jobs(AtRest)
    \/ \E settings \in Settings({CfgExit, CfgNoOpen, CfgBad, CfgJqFile}, {1, 3}) :
          DidChangeConfiguration(settings)

SpecRecipes == InitRecipes /\ [][NextRecipes]_vars

\* the event-kind filter: one document, each trigger met by a server at
\* rest, so that the job it leads to carries its event kind
InitFilter == Init /\ logger = Quiet /\ configs = CfgWild

NextFilter ==
    \/ AtRest /\ Editor({"a"})
    \/ Timers
    \/ Jobs(AtRest)

SpecFilter == InitFilter /\ [][NextFilter]_vars

\* the requireMarker filter of both engines: two documents, one with a
\* marker above it, opened and formatted by a server at rest
InitMarker == Init /\ logger = Quiet /\ configs = CfgMarker

NextMarker ==
    \/ /\ AtRest
       /\ \E uri \in URIs, v \in Versions : DidOpen(uri, "md", v, TextAt(v), FALSE)
    \/ Timers
    \/ Jobs(AtRest)
    \/ /\ AtRest
       /\ \E uri \in URIs : Formatting(uri, FALSE)
    \/ \E ok \in [1..MaxFormatters -> BOOLEAN] : FormattingReturn(ok)
    \/ FormatTimerFire
    \/ FormatTimerClear

SpecMarker == InitMarker /\ [][NextMarker]_vars

(***************************************************************************)
(* Cancellation of lint jobs.                                              *)
(***************************************************************************)
\* C1: a lint job that a newer request for its uri cancelled before it was
\* over never sends textDocument/publishDiagnostics
C1_CancelledNeverPublishes ==
    \A j \in DOMAIN jobs : jobs[j].cancelled => jobs[j].published = {}

\* C4: no two lint jobs for one uri are in progress at the same time (the
\* older one running a tool, decoding, or still on its way to publish)
C4_OneJobPerURI ==
    \A j1, j2 \in DOMAIN jobs :
        (j1 < j2 /\ jobs[j1].uri = jobs[j2].uri)
            => ~(InProgress(jobs[j1]) /\ InProgress(jobs[j2]))

\* C7: a cancelled lint job never overwrites lastPublishedURIs
C7_CancelledNeverWrites ==
    \A j \in DOMAIN jobs : jobs[j].cancelled => ~jobs[j].wrote

\* C9: a job publishes the version its text had when it started, and every
\* tool of the job is fed that text
C9_SnapshotVersion ==
    \A j \in DOMAIN jobs :
        /\ ~jobs[j].fedOther
        /\ \A p \in jobs[j].published : p.version = jobs[j].startVersion

(***************************************************************************)
(* Workspace lints and lastPublishedURIs.                                  *)
(***************************************************************************)
\* C3: a workspace-scoped lint publishes a list (empty if need be) for
\* every uri the previous completed workspace-scoped lint of the language
\* emitted diagnostics for
C3_StaleCleared ==
    \A j \in DOMAIN jobs : jobs[j].stale = {}

\* C6: lastPublishedURIs[languageId] is the set of uris the most recent
\* workspace-scoped lint of the language emitted a diagnostic for
C6_LastPublishedIsEmitted ==
    \A l \in Langs : lastPublishedURIs[l] = lastWsEmitted[l]

(***************************************************************************)
(* Debounce.                                                               *)
(***************************************************************************)
\* C2: a burst of events, each within the debounce delay of the one
\* before, makes the timer enqueue one lint request: no second expiry
\* belongs to the same burst
C2_OneRequestPerBurst == burstFires <= 1

\* some timer or timer callback still carries uri
Carried(uri) ==
    \/ lintTimer # NoTimer /\ lintTimer.URI = uri
    \/ \E k \in DOMAIN orphans : orphans[k].URI = uri
    \/ \E cb \in BagToSet(callbacks) : cb.URI = uri

\* C8: every uri a lint was triggered for and that has not got its job yet
\* is carried by a timer or a callback that will enqueue a request for it:
\* no trigger is suppressed or replaced by the trigger of another uri
C8_NoTriggerSuppressed == \A u \in triggered : Carried(u)

(***************************************************************************)
(* Document store.                                                         *)
(***************************************************************************)
\* C5: a uri is in the document store iff its last didOpen has not been
\* followed by a didClose
C5_StoreIsOpenSet == {u \in URIs : files[u] # NoFile} = editorOpen

(***************************************************************************)
(* Format debounce.                                                        *)
(***************************************************************************)
\* the claim as it stands: a formatting or rangeFormatting request that
\* arrives while the format timer is armed is answered with an empty edit
\* list and no error and runs no formatter; one that arrives when the
\* timer is not armed, in particular after it has expired, arms the timer
\* and goes on to the formatter pipeline
C10_GateUntilExpiry ==
    [][\A uri \in URIs, spawnOK \in BOOLEAN :
          Formatting(uri, spawnOK) =>
            IF formatTimer = "armed"
            THEN /\ formatReply'.uri = uri
                 /\ formatReply'.edits = "empty" /\ formatReply'.err = ""
                 /\ formatReply'.ran = 0
                 /\ dispatcher' = Idle
            ELSE /\ formatTimer' = "armed"
                 /\ dispatcher'.pc = "format" /\ dispatcher'.uri = uri
      ]_vars

\* C10: a formatting or rangeFormatting request that is not forwarded to
\* a passthrough child and finds the format timer field set (the timer is
\* armed, or has expired and its callback has not cleared the field yet)
\* is answered at once with an empty edit list and no error, runs no
\* formatter and leaves the timer alone; one that finds the field cleared
\* sets it again and goes on to run every formatter recipe of its
\* document before it is answered
C10_FormatGate ==
    [][/\ \A uri \in URIs, spawnOK \in BOOLEAN :
            Formatting(uri, spawnOK) /\ ~Forwarded(uri, spawnOK) =>
              IF formatTimer # Nil
              THEN /\ formatReply'.uri = uri /\ formatReply'.gate = formatTimer
                   /\ formatReply'.edits = "empty" /\ formatReply'.err = ""
                   /\ formatReply'.ran = 0
                   /\ formatTimer' = formatTimer
                   /\ dispatcher' = Idle
              ELSE /\ formatTimer' = "armed"
                   /\ dispatcher'.pc = "format" /\ dispatcher'.uri = uri
                   /\ formatReply' = formatReply
       /\ \A ok \in [1..MaxFormatters -> BOOLEAN] :
            FormattingReturn(ok) =>
              LET r == formatReply'
              IN /\ r.uri = dispatcher.uri /\ r.gate = Nil
                 /\ r.edits # "empty"
                 /\ files[r.uri] # NoFile
                      => r.ran = Len(FormatConfigs(files[r.uri].LanguageID, r.uri))
      ]_vars

\* a request for an open document with a formatter recipe met the timer
\* expired, its field not yet cleared, and was answered with the empty
\* edit list
C10_GatedRequest ==
    /\ formatReply.gate = "fired"
    /\ formatReply.edits = "empty"
    /\ files[formatReply.uri] # NoFile
    /\ FormatConfigs(files[formatReply.uri].LanguageID, formatReply.uri) # << >>

\* C11: a format request that passed the gate for an open document is
\* answered either with the diff and no error (some formatter produced
\* output) or with the "not supported" error (none did, in particular
\* when no formatter recipe matches): never with success and no edits
C11_NotSupportedOrDiff ==
    (formatReply.uri # "" /\ formatReply.gate = Nil
        /\ formatReply.err # "document not found")
    => \/ formatReply.edits = "diff" /\ formatReply.err = ""
       \/ formatReply.edits = Nil /\ formatReply.err = "not supported"

(***************************************************************************)
(* In-place formatters.                                                    *)
(***************************************************************************)
\* the text a client gets when it applies the edits to text
ApplyEdits(text, edits) ==
    IF edits = << >> THEN text
    ELSE SubSeq(text, 1, edits[1].start) \o edits[1].newText
             \o SubSeq(text, edits[1].end + 1, Len(text))

\* C12: when the last recipe that succeeded is an in-place formatter, the
\* returned edits applied to the original buffer text give the contents
\* the formatter left on disk without their carriage returns, and the
\* text written to disk before it ran is the text the pipeline held then
C12_InplaceReadBack ==
    (pipeline.pc = "done" /\ pipeline.lastInplace)
    => /\ pipeline.err = ""
       /\ ApplyEdits(pipeline.originalText, pipeline.edits) = StripCR(pipeline.left)
       /\ pipeline.written = pipeline.held

\* a chain of two recipes ended with an in-place formatter that was handed
\* the output of the first recipe and left a carriage return on disk
C12_ChainedInplace ==
    /\ pipeline.pc = "done" /\ pipeline.lastInplace
    /\ Len(pipeline.configs) = 2
    /\ pipeline.held # pipeline.originalText
    /\ \E k \in DOMAIN pipeline.left : pipeline.left[k] = CR
    /\ pipeline.edits # << >>

(***************************************************************************)
(* Diagnostics of error-format entries.                                    *)
(***************************************************************************)
\* the entry was turned into a diagnostic
Emitted == conv.pc = "done" /\ ~conv.diag.panic

\* C13: for an entry with line >= 1 and column >= 1 as the tool printed
\* them, the diagnostic starts at (line - 1 - lintOffset, column - 1),
\* whatever lintOffset and lintOffsetColumns are
C13_StartIgnoresColumnOffset ==
    (Emitted /\ conv.entry.Lnum >= 1 /\ conv.entry.Col >= 1)
    => conv.diag.start = << conv.entry.Lnum - 1 - conv.config.LintOffset,
                            conv.entry.Col - 1 >>

\* C13 as amended: the diagnostic starts at (line - 1 - lintOffset,
\* column - 1 + lintOffsetColumns) when lintOffsetColumns is positive, and
\* at (line - 1 - lintOffset, column - 1) otherwise
C13_StartWithColumnOffset ==
    (Emitted /\ conv.entry.Lnum >= 1 /\ conv.entry.Col >= 1)
    => conv.diag.start =
         << conv.entry.Lnum - 1 - conv.config.LintOffset,
            conv.entry.Col - 1 + (IF conv.config.LintOffsetColumns > 0
                                  THEN conv.config.LintOffsetColumns ELSE 0) >>

\* an entry at line 2, column 2 under a line offset and a positive column
\* offset
C13_OffsetEntry ==
    /\ Emitted /\ conv.entry.Lnum = 2 /\ conv.entry.Col = 2
    /\ conv.config.LintOffset = 1 /\ conv.config.LintOffsetColumns = 1
    /\ conv.diag.start = << 0, 2 >>

\* C14: the type letter, translated through lintCategoryMap when the map
\* is not empty, gives the severity: E/e 1, W/w 2, I/i 3, N/n 4, any other
\* or no letter lintSeverity, or 1 when lintSeverity is unset
C14_SeverityOfLetter ==
    Emitted =>
      LET m == conv.config.LintCategoryMap
          t == IF DOMAIN m # {} THEN Head(m[conv.entry.Type]) ELSE conv.entry.Type
          sev == conv.diag.severity
      IN /\ t \in {"E", "e"} => sev = 1
         /\ t \in {"W", "w"} => sev = 2
         /\ t \in {"I", "i"} => sev = 3
         /\ t \in {"N", "n"} => sev = 4
         /\ t \notin {"E", "e", "W", "w", "I", "i", "N", "n"}
              => sev = IF conv.config.LintSeverity = 0 THEN 1
                       ELSE conv.config.LintSeverity

\* a letter the map translates to a long category name got the severity
\* of the name's first letter
C14_TranslatedLetter ==
    /\ Emitted /\ conv.entry.Type = "X"
    /\ DOMAIN conv.config.LintCategoryMap = {"X", "E"}
    /\ Head(conv.config.LintCategoryMap["X"]) = "i"
    /\ conv.config.LintSeverity = 2
    /\ conv.diag.severity = 3

\* C16: whatever entry a tool's output holds and whatever the recipe's
\* configuration, the job emits a diagnostic or skips the entry: the
\* server process does not terminate
C16_EntryNeverKillsServer == conv.pc = "done" => ~panicked

(***************************************************************************)
(* Crashing lint tools.                                                    *)
(***************************************************************************)
\* C15: a job that has not been cancelled and whose tool cannot be spawned
\* or dies goes on with its next recipe or with its publish: no step ends
\* it without a publish
C15_CrashSkipsRecipeOnly ==
    [][\A j \in DOMAIN jobs :
         (jobs[j].pc \in {"recipe", "tool"} /\ ~jobs[j].cancelled)
             => jobs'[j].pc # "done"]_vars

(***************************************************************************)
(* Shutdown.                                                               *)
(***************************************************************************)
\* C17: once shutdown has been handled nothing crashes the server: not a
\* lint timer that was pending or firing, not a later document event, not
\* a second shutdown
C17_QuietAfterShutdown == request = "closed" => ~panicked

(***************************************************************************)
(* Passthrough children.                                                   *)
(***************************************************************************)
\* the children spawned so far for the documents of language l
ChildrenOf(l) == {c \in Commands : passthroughServers[Key(l, c)] # NoServer}

\* C18: no language ever has a second child; no child is spawned before
\* the first forwarded call, and every forwarded call goes to the one
\* child of its language
C18_OneChildPerLanguage ==
    /\ \A l \in Langs :
          /\ Cardinality(ChildrenOf(l)) <= 1
          /\ \A c \in Commands : passthroughServers[Key(l, c)].pid <= 1
    /\ forwarded = NoForward => \A key \in Keys : passthroughServers[key] = NoServer
    /\ forwarded # NoForward
         => /\ forwarded.pid = 1
            /\ passthroughServers[forwarded.key].pid = 1
            /\ ChildrenOf(forwarded.lang) = {forwarded.cmd}

\* C19: no forwarded call is sent to a child that has exited: the call
\* that follows a crash spawns a fresh child
C19_NoCallToDeadChild == forwarded # NoForward => forwarded.alive

(***************************************************************************)
(* Unknown documents.                                                      *)
(***************************************************************************)
\* a didChange for uri leaves the store and the lint timer alone and
\* returns the "document not found" error
ChangeRejected(uri) ==
    \A v \in Versions, spawnOK \in BOOLEAN :
        DidChange(uri, TextAt(v), v, spawnOK)
            => /\ updateErr' = "document not found"
               /\ UNCHANGED << files, timerVars >>

Supported ==
    {"initialize", "initialized", "shutdown"}
    \cup {"textDocument/didOpen", "textDocument/didChange", "textDocument/didSave",
          "textDocument/didClose", "textDocument/formatting",
          "textDocument/rangeFormatting", "textDocument/documentSymbol",
          "textDocument/completion", "textDocument/definition",
          "textDocument/hover", "textDocument/codeAction"}
    \cup {"workspace/executeCommand", "workspace/didChangeConfiguration",
          "workspace/didChangeWorkspaceFolders", "workspace/workspaceFolders"}

RequiredKeys(v) ==
    v.object /\ Absent \notin {v.file, v.message, v.severity, v.range}

\* C22: an emitted object that lacks one of the keys file, message,
\* severity, range produces no diagnostic; an object with all four does
C22_RequiredKeys ==
    jqrun.pc = "done" => (jqrun.diag.emitted <=> RequiredKeys(jqrun.v))

(***************************************************************************)
(* The install probe.                                                      *)
(***************************************************************************)
\* the check command exited with zero and printed something
ExitZeroWithOutput(run) ==
    run.exit = 0 /\ \E k \in DOMAIN run.output : run.output[k] # SP

\* C23: with checkInstalled set, a probe takes the tool for installed if
\* and only if the check command exits with zero and its combined output
\* is non-empty after trimming, in main's probe and in lint's
C23_InstalledIff ==
    probe.pc = "done" /\ probe.config.CheckInstalled
        => (probe.out.installed <=> ExitZeroWithOutput(probe.check))

\* C24: when the tool is found not installed, the install command runs
\* only with install set and install mode on, checkInstalled is run again
\* after it, and the recipe is used only when that second check passes
C24_InstallThenRecheck ==
    probe.pc = "done" /\ probe.config.CheckInstalled /\ ~probe.out.installed
        => IF probe.config.Install /\ probe.isInstallDeps
           THEN /\ probe.out.ranInstall
                /\ probe.install.exit = 0 => probe.out.rechecked
                /\ probe.out.used <=> /\ probe.install.exit = 0
                                      /\ ExitZeroWithOutput(probe.recheck)
           ELSE ~probe.out.ranInstall /\ ~probe.out.used

(***************************************************************************)
(* Command templates.                                                      *)
(***************************************************************************)
\* C25: the substituted command does not depend on the order in which the
\* options are applied, and substituting it again changes nothing
C25_SameStringTwice ==
    subst.pc = "done" => subst.reversed = subst.result /\ subst.again = subst.result

(***************************************************************************)
(* The handler mutex.                                                      *)
(***************************************************************************)
\* two accesses of different goroutines race: same field, one of them a
\* write, and not both under the mutex
Races(a, b) == a.field = b.field /\ (a.write \/ b.write) /\ ~(a.locked /\ b.locked)

\* C26: no two goroutines (the dispatcher, a timer callback, a lint job)
\* are about to access one of the shared fields in a way that races
C26_NoDataRace ==
    LET callback == UNION {CallbackAccesses(cb) : cb \in BagToSet(callbacks)}
                        \cup FormatCallbackAccesses
        job(j) == JobAccesses(jobs[j])
    IN /\ \A a \in DispatcherAccesses, b \in callback : ~Races(a, b)
       /\ \A j \in DOMAIN jobs :
            /\ \A a \in DispatcherAccesses \cup callback, b \in job(j) : ~Races(a, b)
            /\ \A k \in DOMAIN jobs \ {j} :
                 \A a \in job(j), b \in job(k) : ~Races(a, b)

(***************************************************************************)
(* The recipe loop.                                                        *)
(***************************************************************************)
\* C27: a tool that exits with zero while lintIgnoreExitCode is false adds
\* no diagnostic and the job goes on to the next recipe; after any other
\* exit of its own the output is parsed: an entry for the active document
\* becomes a diagnostic
C27_ZeroExitSkipped ==
    [][\A j \in DOMAIN jobs, exit \in {"zero", "nonzero"}, out \in SUBSET URIs,
          json \in BOOLEAN :
          ToolExit(j, exit, out, json) =>
            LET job == jobs[j]
                config == job.configs[job.i]
                before == job.uriToDiagnostics
                after == jobs'[j].uriToDiagnostics
            IN /\ jobs'[j].pc \in {"recipe", "finish"}
               /\ jobs'[j].pc = "recipe" <=> job.i < Len(job.configs)
               /\ IF exit = "zero" /\ ~config.LintIgnoreExitCode
                  THEN after = before
                  ELSE /\ job.uri \in out => Len(after[job.uri]) = Len(before[job.uri]) + 1
                       /\ job.uri \notin out => after[job.uri] = before[job.uri]]_vars

\* the first recipe, which does not ignore exit codes, added nothing and
\* the tool of the second recipe is running
C27_SecondRecipeRuns ==
    /\ configs = CfgExit
    /\ \E j \in DOMAIN jobs :
         /\ jobs[j].pc = "tool" /\ jobs[j].i = 2
         /\ jobs[j].uriToDiagnostics["a"] = << >>

\* C28: a job none of whose recipes has lintWorkspace set publishes for no
\* uri but the active document's
C28_NoCrossFileWithoutWorkspace ==
    \A j \in DOMAIN jobs :
        jobs[j].pc = "done" /\ ~jobs[j].wrote => PublishedFor(jobs[j]) \subseteq {jobs[j].uri}

\* C29: a job for an open document that ran to its end without being
\* cancelled has published a list for the active uri
C29_ActiveURIPublished ==
    \A j \in DOMAIN jobs :
        jobs[j].pc = "done" /\ ~jobs[j].cancelled /\ jobs[j].startVersion # -1
            => jobs[j].uri \in PublishedFor(jobs[j])

\* C30: a recipe with an invalid error-format or an invalid jq filter is
\* passed over and the job goes on with the recipes after it
C30_BadRecipeSkipped ==
    [][\A j \in DOMAIN jobs :
          /\ jobs[j].pc = "recipe" /\ jobs'[j] # jobs[j]
          /\ jobs[j].configs[jobs[j].i].BadFormats \/ jobs[j].configs[jobs[j].i].BadJq
          => InProgress(jobs'[j])]_vars

\* C31: the output of a recipe with lintJq set is decoded by the jq
\* evaluator alone: when the output is no JSON the filter accepts, the
\* error-format parser is not run on it and the recipe adds no diagnostic
C31_JqNeverErrorFormat ==
    [][\A j \in DOMAIN jobs, exit \in {"zero", "nonzero"}, out \in SUBSET URIs :
          /\ ToolExit(j, exit, out, FALSE)
          /\ jobs[j].configs[jobs[j].i].LintJQ
          => jobs'[j].uriToDiagnostics = jobs[j].uriToDiagnostics]_vars

(***************************************************************************)
(* The recipe filters.                                                     *)
(***************************************************************************)
\* the recipe may run on the event kind
PassesEvent(cfg, eventType) ==
    /\ eventType = eventTypeOpen => cfg.LintAfterOpen
    /\ eventType = eventTypeChange => ~cfg.LintOnSave

\* the recipe's requireMarker lets it run for the document
PassesMarker(cfg, fname) ==
    cfg.RequireMarker => matchRootPath(fname, cfg.RootMarkers) # ""

\* the recipes of the document's language, then the wildcard recipes
RecipesFor(languageID) ==
    (IF languageID \in DOMAIN configs THEN configs[languageID] ELSE << >>)
    \o (IF wildcard \in DOMAIN configs THEN configs[wildcard] ELSE << >>)

\* C32: the recipes a lint job runs are the recipes of the language and of
\* the wildcard that have a lint command and pass the requireMarker and
\* event-kind filter for the event kind of the job's request
C32_EventKindFilter ==
    [][\A j \in DOMAIN jobs :
          LintStart(j, FALSE) /\ files[jobs[j].uri] # NoFile =>
            LET job == jobs[j]
                Runs(cfg) == /\ cfg.LintCommand # ""
                             /\ PassesMarker(cfg, job.uri)
                             /\ PassesEvent(cfg, job.eventType)
            IN jobs'[j].configs = SelectSeq(RecipesFor(files[job.uri].LanguageID), Runs)]_vars

\* C33: no lint job and no format request runs a recipe with requireMarker
\* set for a document without a matching marker above it
C33_RequireMarker ==
    [][/\ \A j \in DOMAIN jobs :
            LintStart(j, FALSE) =>
              \A k \in DOMAIN jobs'[j].configs :
                  PassesMarker(jobs'[j].configs[k], jobs[j].uri)
       /\ \A ok \in [1..MaxFormatters -> BOOLEAN] :
            FormattingReturn(ok) /\ files[dispatcher.uri] # NoFile =>
              LET uri == dispatcher.uri
                  Runs(cfg) == cfg.FormatCommand # "" /\ PassesMarker(cfg, uri)
              IN formatReply'.ran = Len(SelectSeq(RecipesFor(files[uri].LanguageID), Runs))
      ]_vars

(***************************************************************************)
(* The formatter pipeline, recipe by recipe.                               *)
(***************************************************************************)
\* what a recipe whose command failed leaves of the pipeline: the text and
\* the formatted mark as they were, the next recipe up
FailedRecipeSkipped ==
    /\ pipeline'.text = pipeline.text
    /\ pipeline'.formatted = pipeline.formatted
    /\ pipeline'.pc = "run" /\ pipeline'.i = pipeline.i + 1

\* C34: a recipe whose command succeeded hands its output without carriage
\* returns to the recipes after it; a recipe whose command failed, in
\* whatever mode, changes neither the pipeline text nor the formatted mark
\* and the next recipe is up; the edits returned are the diff of the
\* buffer text and the last pipeline text
C34_PipelineOrder ==
    [][/\ \A ok \in BOOLEAN, out \in FormatTexts :
            FormatStdout(ok, out) =>
              IF ok THEN pipeline'.text = StripCR(out) /\ pipeline'.formatted
              ELSE FailedRecipeSkipped
       /\ \A writeOK, cmdOK, readOK \in BOOLEAN, out \in FormatTexts :
            FormatInplace(writeOK, cmdOK, out, readOK) =>
              IF writeOK /\ cmdOK /\ readOK
              THEN pipeline'.text = StripCR(out) /\ pipeline'.formatted
              ELSE FailedRecipeSkipped
       /\ PipelineReturn /\ pipeline.formatted =>
            pipeline'.edits = ComputeEdits(pipeline.originalText, pipeline.text)
      ]_vars

\* C35: the command handed to the shell holds no placeholder, whether the
\* recipe is a stdin, a file-arg or an in-place formatter
C35_NoPlaceholderLeft ==
    subst.pc = "done" =>
        /\ subst.result.ok => ~HasPlaceholder(subst.result.command)
        /\ ~HasPlaceholder(subst.inplace)

(***************************************************************************)
(* The range of a diagnostic.                                              *)
(***************************************************************************)
\* C36: a diagnostic for another file than the active document has a
\* zero-width range, and so has one for an entry without a column, which
\* starts at character 0
C36_CrossFileZeroWidth ==
    (located.pc = "done" /\ located.diag.emitted) =>
        /\ located.diag.uri # located.active => located.diag.end = located.diag.start
        /\ located.entry.Col = 0 =>
              located.diag.start[2] = 0 /\ located.diag.end = located.diag.start

\* C37: the positions of a published diagnostic are not negative and the
\* end is not before the start
C37_PositionsNonNegative ==
    (located.pc = "done" /\ located.diag.emitted) =>
        /\ located.diag.start[1] >= 0 /\ located.diag.start[2] >= 0
        /\ located.diag.end[1] = located.diag.start[1]
        /\ located.diag.end[2] >= located.diag.start[2]

(***************************************************************************)
(* What a lint request carries.                                            *)
(***************************************************************************)
\* the handler of a trigger of the kind for the uri ran
Trigger(uri, eventType) ==
    \/ /\ eventType = eventTypeOpen
       /\ \E v \in Versions : DidOpen(uri, "md", v, TextAt(v), FALSE)
    \/ /\ eventType = eventTypeChange
       /\ files[uri] # NoFile
       /\ \E v \in Versions : DidChange(uri, TextAt(v), v, FALSE)
    \/ /\ eventType = eventTypeSave
       /\ DidSave(uri, << >>, FALSE)

\* C38: a trigger that arrives while no lint timer is armed arms the timer,
\* which carries the trigger's uri and event kind (to its callback's send
\* when it has expired before the field is stored); a trigger that
\* arrives while a timer is armed only resets the delay: what the timers
\* and callbacks carry stays as it is and nothing is enqueued; the request
\* of an expired timer and the job spawned for it carry the timer's uri
\* and event kind, and the job selects its recipes by that event kind
C38_FirstTriggerCarried ==
    [][/\ \A uri \in URIs :
            (\E eventType \in EventTypes : Trigger(uri, eventType)) =>
              /\ IF WindowOpen
                    THEN /\ lintTimer'.URI = lintTimer.URI
                         /\ lintTimer'.EventType = lintTimer.EventType
                         /\ UNCHANGED callbacks
                    ELSE \E eventType \in EventTypes :
                         /\ Trigger(uri, eventType)
                         /\ lintTimer'.URI = uri /\ lintTimer'.EventType = eventType
                         /\ callbacks' =
                              IF lintTimer'.armed THEN callbacks
                              ELSE callbacks (+) SetToBag({[URI |-> uri,
                                       EventType |-> eventType, pc |-> "send"]})
              /\ UNCHANGED orphans
              /\ Len(jobs') = Len(jobs)
       /\ TimerFire =>
            \E cb \in BagToSet(callbacks') :
                /\ callbacks' = callbacks (+) SetToBag({cb})
                /\ IF orphans # << >>
                      THEN cb.URI = Head(orphans).URI /\ cb.EventType = Head(orphans).EventType
                      ELSE cb.URI = lintTimer.URI /\ cb.EventType = lintTimer.EventType
       /\ \A cb \in BagToSet(callbacks) :
            LinterReceive(cb) =>
              /\ jobs'[Len(jobs')].uri = cb.URI
              /\ jobs'[Len(jobs')].eventType = cb.EventType
       /\ \A j \in DOMAIN jobs :
            LintStart(j, FALSE) /\ files[jobs[j].uri] # NoFile =>
              jobs'[j].configs = LintConfigs(files[jobs[j].uri].LanguageID, jobs[j].uri,
                                             jobs[j].eventType)
      ]_vars

(***************************************************************************)
(* Documents of a language with a passthrough spec.                        *)
(***************************************************************************)
\* the call went to the child and nothing was done here: the store, the
\* lint timer and the format gate are as they were
ForwardedOnly ==
    /\ forwarded' # forwarded
    /\ UNCHANGED << files, jobs, timerVars, formatVars >>

\* C39: the didOpen of a document the store does not hold is handled here
\* and not forwarded; once the document is in the store and its language
\* has a passthrough spec, every textDocument method for it is forwarded
\* and nothing is done here, provided the child is cached or spawns
C39_OpenLocalThenForwarded ==
    [][\A uri \in URIs :
        /\ \A v \in Versions, spawnOK \in BOOLEAN :
              DidOpen(uri, "md", v, TextAt(v), spawnOK) /\ files[uri] = NoFile =>
                /\ UNCHANGED passVars
                /\ files'[uri] = [LanguageID |-> "md", Text |-> TextAt(v), Version |-> v]
                /\ lintTimer'.armed \/ callbacks' # callbacks
        /\ findPassthrough(uri) =>
              /\ \A v \in Versions :
                    /\ DidOpen(uri, "md", v, TextAt(v), TRUE) => ForwardedOnly
                    /\ DidChange(uri, TextAt(v), v, TRUE) => ForwardedOnly
              /\ \A t \in {<< >>, files[uri].Text} : DidSave(uri, t, TRUE) => ForwardedOnly
              /\ DidClose(uri, TRUE) => ForwardedOnly
              /\ Formatting(uri, TRUE) => ForwardedOnly
              /\ \A method \in URIMethods :
                    handle(method, uri, TRUE) =>
                        ForwardedOnly /\ routed'.to = "passthrough"
      ]_vars

\* the editor closed the document, the didClose went to the child, and
\* the store still holds the document
C39_CloseForwarded ==
    /\ "a" \notin editorOpen
    /\ files["a"] # NoFile
    /\ forwarded # NoForward

====
